---- MODULE Spec2Model ----
(***************************************************************************)
(* RIP-7560 native account abstraction: the batch driver, the validation   *)
(* phases and the execution phase of core/state_processor_rip7560.go,      *)
(* with the transaction helpers of core/types/tx_rip7560.go.               *)
(*                                                                         *)
(* The EVM, the state database and the contracts are the environment: a    *)
(* frame is started by the pipeline, may call ENTRY_POINT any number of    *)
(* times (OnEnter), and ends with a result chosen nondeterministically     *)
(* within the gas budget it was given.                                     *)
(*                                                                         *)
(* Machine integers are modelled at a reduced width: uint64 is arithmetic  *)
(* modulo W64 = 2^Bits64 and uint256 arithmetic modulo W256 = 2^Bits256;   *)
(* the per-field gas cap 1<<62 is W64 / 4.                                 *)
(***************************************************************************)
EXTENDS Integers, Sequences, FiniteSets, TLC

(* ------------------------------ bounds --------------------------------- *)
Bits64 == 8
Bits256 == 15
MaxBatch == 2
MaxCalls == 2

W64 == 2 ^ Bits64
W256 == 2 ^ Bits256
MaxUint64 == W64 - 1
\* SumGas: "val > 1<<62"
GasCap == W64 \div 4

Nil == "nil"
\* An optional value (a Go pointer or slice that may be nil).
None == <<>>
Some(x) == <<x>>

(* ----------------------------- constants ------------------------------- *)
Rip7560Type == 4
\* params.Rip7560TxGas, scaled down with the gas fields to the Bits64-bit word.
Rip7560TxGas == 5
TxDataNonZeroGasEIP2028 == 16
TxDataZeroGas == 4
RefundQuotientEIP3529 == 5
TxAccessListAddressGas == 2400
TxAccessListStorageKeyGas == 1900
AA_GAS_PENALTY_PCT == 10
PaymasterMaxContextSize == 65536

AA_ENTRY_POINT == "0x7560"
AA_SENDER_CREATOR == "0xffff7560"
AA_NONCE_MANAGER == "NonceManager"
ZeroAddress == "0x0"

ExecutionStatusSuccess == 0
ExecutionStatusExecutionFailure == 1
ExecutionStatusPostOpFailure == 2
ExecutionStatusExecutionAndPostOpFailure == 3

ReceiptStatusFailed == 0
ReceiptStatusSuccessful == 1

(* ------------------------- machine arithmetic -------------------------- *)
U64(x) == ((x % W64) + W64) % W64
U256(x) == ((x % W256) + W256) % W256
Min(a, b) == IF a < b THEN a ELSE b

(* ------------------------------ addresses ------------------------------ *)
\* S: a deployed account; N: an account without code; P: a paymaster
\* contract; D: a deployer contract; C: the coinbase; X: any other contract.
Accounts == {"S", "N", "M", "P", "D", "C", "X", ZeroAddress}
Coinbase == "C"

(* ------------------------- transaction model --------------------------- *)
\* A byte string is kept as its count of zero and of non-zero bytes.
Bytes(z, nz) == [z |-> z, nz |-> nz]
NoBytes == Bytes(0, 0)
Len8(data) == data.z + data.nz

BaseTx ==
  [ Type |-> Rip7560Type, Nonce |-> 0, NonceKey |-> 0,
    GasTipCap |-> 1, GasFeeCap |-> 2, Gas |-> 20,
    Sender |-> "S", AuthorizationData |-> NoBytes, ExecutionData |-> Bytes(1, 0),
    Paymaster |-> Nil, PaymasterData |-> NoBytes,
    Deployer |-> Nil, DeployerData |-> NoBytes,
    ValidationGasLimit |-> 20, PaymasterValidationGasLimit |-> 0, PostOpGas |-> 0,
    AccessList |-> [addresses |-> 0, storageKeys |-> 0] ]

TxPlain == BaseTx
TxPaymaster == [BaseTx EXCEPT !.Paymaster = "P", !.PaymasterValidationGasLimit = 10,
                              !.PostOpGas = 20, !.GasTipCap = 2]
TxDeployer == [BaseTx EXCEPT !.Sender = "N", !.Deployer = "D", !.DeployerData = Bytes(1, 0),
                             !.GasFeeCap = 3]
\* A two-dimensional nonce, no fee, and a total gas limit above GasCap.
TxNonceKey == [BaseTx EXCEPT !.NonceKey = 1, !.GasFeeCap = 0, !.GasTipCap = 0,
                             !.Gas = 40, !.ValidationGasLimit = 40]
TxBadStatic == [BaseTx EXCEPT !.PaymasterData = Bytes(0, 1)]
\* A transaction of another type (0x02), where the driver stops.
TxLegacy == [BaseTx EXCEPT !.Type = 2]

\* The sender's second transaction, and one of a sender whose nonce is the
\* largest uint64.
TxNextNonce == [BaseTx EXCEPT !.Nonce = 1]
TxMaxNonce == [BaseTx EXCEPT !.Sender = "M", !.Nonce = MaxUint64]

\* Fee caps so large that the price of the total gas limit (64 here) is
\* 2^256, which is 0 as a uint256.
TxHugeFee == [BaseTx EXCEPT !.GasFeeCap = W256 \div 64, !.GasTipCap = W256 \div 64,
                            !.Gas = 64 - Rip7560TxGas - BaseTx.ValidationGasLimit]

TxPool == {TxPlain, TxPaymaster, TxDeployer, TxNonceKey, TxBadStatic, TxLegacy}

\* tx.Hash(): two transactions with the same content have the same hash.
Hash(tx) == tx

(* --------------------- core/types/tx_rip7560.go ------------------------ *)
GasPayer(tx) ==
  IF tx.Paymaster # Nil /\ tx.Paymaster # ZeroAddress THEN tx.Paymaster ELSE tx.Sender

\* SumGas returns (sum, error): the sum wraps in uint64, each term is capped.
RECURSIVE SumGasFrom(_, _)
SumGasFrom(vals, sum) ==
  IF vals = <<>> THEN [val |-> sum, err |-> Nil]
  ELSE IF Head(vals) > GasCap THEN [val |-> 0, err |-> "invalid gas values"]
  ELSE SumGasFrom(Tail(vals), U64(sum + Head(vals)))

SumGas(vals) == SumGasFrom(vals, 0)

callDataCost(data) ==
  U64(U64(data.nz * TxDataNonZeroGasEIP2028) + U64(data.z * TxDataZeroGas))

callDataGasCost(tx) ==
  SumGas(<< callDataCost(tx.AuthorizationData), callDataCost(tx.DeployerData),
            callDataCost(tx.ExecutionData), callDataCost(tx.PaymasterData) >>)

accessListGasCost(tx) ==
  U64(U64(tx.AccessList.addresses * TxAccessListAddressGas)
      + U64(tx.AccessList.storageKeys * TxAccessListStorageKeyGas))

eip7702CodeInsertionsGasCost(tx) == 0

PreTransactionGasCost(tx) ==
  LET c == callDataGasCost(tx) IN
  IF c.err # Nil THEN [val |-> 0, err |-> c.err]
  ELSE [val |-> U64(Rip7560TxGas + c.val + accessListGasCost(tx)
                    + eip7702CodeInsertionsGasCost(tx)),
        err |-> Nil]

TotalGasLimit(tx) ==
  SumGas(<< Rip7560TxGas, tx.Gas, tx.ValidationGasLimit,
            tx.PaymasterValidationGasLimit, tx.PostOpGas >>)

\* NonceKey is never nil once the transaction is copied or decoded.
IsRip7712Nonce(tx) == tx.NonceKey > 0

\* baseFee = None is a header without a base fee; the result is a big.Int.
EffectiveGasPrice(tx, baseFee) ==
  IF baseFee = None THEN tx.GasFeeCap
  ELSE LET tip == tx.GasFeeCap - baseFee[1] IN
       (IF tip > tx.GasTipCap THEN tx.GasTipCap ELSE tip) + baseFee[1]

(* ------------------- core/state_processor_rip7560.go ------------------- *)
\* An error value: msg = Nil is the nil error; isVPE tells a
\* *ValidationPhaseError from a plain error; reason is the revert data of a
\* ValidationPhaseError, hex encoded.
NoError ==
  [msg |-> Nil, reason |-> Nil, revertEntityName |-> Nil, frameReverted |-> FALSE,
   isVPE |-> FALSE]
PlainError(msg) == [NoError EXCEPT !.msg = msg]
\* Return data is a string of hex digits, two a byte; nil is the empty one.
NoData == ""
hexutilEncode(b) == "0x" \o b
\* An error that drops the revert data.
newValidationPhaseErrorWithoutData(innerErr, revertReason, entity, reverted) ==
  IF innerErr.isVPE THEN innerErr
  ELSE [msg |-> innerErr.msg, reason |-> hexutilEncode(NoData),
        revertEntityName |-> entity, frameReverted |-> reverted, isVPE |-> TRUE]
\* An inner error that is a ValidationPhaseError already is returned as it is.
newValidationPhaseError(innerErr, revertReason, entity, reverted) ==
  IF innerErr.isVPE THEN innerErr
  ELSE [msg |-> innerErr.msg, reason |-> hexutilEncode(revertReason),
        revertEntityName |-> entity, frameReverted |-> reverted, isVPE |-> TRUE]

\* wrapError: a validation error that no frame revert caused.
wrapError(innerErr) == newValidationPhaseError(innerErr, NoData, Nil, FALSE)

\* A refund that is paid whole.
capRefundWhole(getRefund, gasUsed) == getRefund
capRefund(getRefund, gasUsed) ==
  LET refund == gasUsed \div RefundQuotientEIP3529 IN
  IF refund > getRefund THEN getRefund ELSE refund

validateValidityTimeRange(time, validAfter, validUntil) ==
  IF validUntil = 0 /\ validAfter = 0 THEN Nil
  ELSE IF validUntil < validAfter THEN "RIP-7560 transaction validity range invalid"
  ELSE IF time > validUntil THEN "RIP-7560 transaction validity expired"
  ELSE IF time < validAfter THEN "RIP-7560 transaction validity not reached yet"
  ELSE Nil

\* The time check of a window the callback returned: two uint256, each
\* taken through (*big.Int).Uint64(), the low 64 bits.
validateAcceptedTimeRange(time, validAfter, validUntil) ==
  validateValidityTimeRange(time, validAfter % W64, validUntil % W64)

(* ------------------------- the state database -------------------------- *)
\* balance: uint256 per account; nonce: uint64; code: whether the account
\* has code; storage: the frames whose writes are in the state; refund: the
\* refund counter; logs: the logs added, each with the hash of its
\* transaction.
GetCodeSize(sdb, a) == IF sdb.code[a] THEN 1 ELSE 0
GetBalance(sdb, a) == sdb.balance[a]
GetNonce(sdb, a) == sdb.nonce[a]
SubBalance(sdb, a, amount) == [sdb EXCEPT !.balance[a] = U256(@ - amount)]
AddBalance(sdb, a, amount) == [sdb EXCEPT !.balance[a] = U256(@ + amount)]
SetNonce(sdb, a, n) == [sdb EXCEPT !.nonce[a] = n]
AddLog(sdb, log) == [sdb EXCEPT !.logs = Append(@, log)]
GetLogs(sdb, hash) == SelectSeq(sdb.logs, LAMBDA l : l.TxHash = hash)
\* Finalise clears the journal and the refund counter.
Finalise(sdb) == [sdb EXCEPT !.refund = 0]

\* A static validation without the check of the intrinsic cost.
performStaticValidationWithoutGasCheck(aatx, sdb) ==
  LET hasPaymaster == aatx.Paymaster # Nil
      hasPaymasterData == Len8(aatx.PaymasterData) # 0
      hasPaymasterGasLimit == aatx.PaymasterValidationGasLimit # 0
      hasDeployer == aatx.Deployer # Nil
      hasDeployerData == Len8(aatx.DeployerData) # 0
      hasCodeSender == GetCodeSize(sdb, aatx.Sender) # 0
  IN
  IF ~hasDeployer /\ hasDeployerData
    THEN "deployer data is provided but deployer address is not set"
  ELSE IF ~hasPaymaster /\ (hasPaymasterData \/ hasPaymasterGasLimit)
    THEN "paymaster data is provided but paymaster address is not set"
  ELSE IF hasPaymaster /\ ~hasPaymasterGasLimit
    THEN "paymaster address is provided but paymasterVerificationGasLimit is zero"
  ELSE IF hasPaymaster /\ GetCodeSize(sdb, aatx.Paymaster) = 0
    THEN "paymaster address is provided but contract has no code deployed"
  ELSE IF hasDeployer /\ GetCodeSize(sdb, aatx.Deployer) = 0
    THEN "deployer address is provided but contract has no code deployed"
  ELSE IF hasDeployer /\ hasCodeSender
    THEN "sender is already deployed"
  ELSE IF ~hasDeployer /\ ~hasCodeSender
    THEN "account is not deployed and no deployer is specified"
  ELSE Nil
performStaticValidation(aatx, sdb) ==
  LET hasPaymaster == aatx.Paymaster # Nil
      hasPaymasterData == Len8(aatx.PaymasterData) # 0
      hasPaymasterGasLimit == aatx.PaymasterValidationGasLimit # 0
      hasDeployer == aatx.Deployer # Nil
      hasDeployerData == Len8(aatx.DeployerData) # 0
      hasCodeSender == GetCodeSize(sdb, aatx.Sender) # 0
      preTransactionGasCost == PreTransactionGasCost(aatx).val
  IN
  IF ~hasDeployer /\ hasDeployerData
    THEN "deployer data is provided but deployer address is not set"
  ELSE IF ~hasPaymaster /\ (hasPaymasterData \/ hasPaymasterGasLimit)
    THEN "paymaster data is provided but paymaster address is not set"
  ELSE IF hasPaymaster /\ ~hasPaymasterGasLimit
    THEN "paymaster address is provided but paymasterVerificationGasLimit is zero"
  ELSE IF hasPaymaster /\ GetCodeSize(sdb, aatx.Paymaster) = 0
    THEN "paymaster address is provided but contract has no code deployed"
  ELSE IF hasDeployer /\ GetCodeSize(sdb, aatx.Deployer) = 0
    THEN "deployer address is provided but contract has no code deployed"
  ELSE IF hasDeployer /\ hasCodeSender
    THEN "sender is already deployed"
  ELSE IF preTransactionGasCost > aatx.ValidationGasLimit
    THEN "insufficient ValidationGasLimit to cover PreTransactionGasCost"
  ELSE IF ~hasDeployer /\ ~hasCodeSender
    THEN "account is not deployed and no deployer is specified"
  ELSE Nil

\* A pool that reserves nothing.
SubGasReservesNothing(g, amount) ==
  IF g < amount THEN [gp |-> g, err |-> "gas limit reached"]
  ELSE [gp |-> g, err |-> Nil]
\* gp.SubGas: the pool is left as it is when it holds less than amount.
SubGas(g, amount) ==
  IF g < amount THEN [gp |-> g, err |-> "gas limit reached"]
  ELSE [gp |-> g - amount, err |-> Nil]

\* The result carries the state and the pool as the call leaves them.
BuyGasRip7560Transaction(st0, sdb, gasPrice, g) ==
  LET total == TotalGasLimit(st0)
      gasLimit == total.val
      preCharge == U256(gasLimit * gasPrice)
      chargeFrom == GasPayer(st0)
      charged == SubBalance(sdb, chargeFrom, preCharge)
      sub == SubGas(g, gasLimit)
  IN
  IF total.err # Nil
    THEN [err |-> PlainError(total.err), gasLimit |-> 0, preCharge |-> 0,
          statedb |-> sdb, gp |-> g]
  ELSE IF GetBalance(sdb, chargeFrom) < preCharge
    THEN [err |-> PlainError("insufficient funds"), gasLimit |-> 0, preCharge |-> 0,
          statedb |-> sdb, gp |-> g]
  ELSE IF sub.err # Nil
    THEN [err |-> newValidationPhaseError(PlainError(sub.err), NoData, "block gas limit", FALSE),
          gasLimit |-> 0, preCharge |-> 0, statedb |-> charged, gp |-> g]
  ELSE [err |-> NoError, gasLimit |-> gasLimit, preCharge |-> preCharge,
        statedb |-> charged, gp |-> sub.gp]


(* ------------------------ the EntryPoint callback ---------------------- *)
\* The calldata of a call to ENTRY_POINT: the method its selector names,
\* the two uint256 of the validity window and the length of the context.
CallData(method, validAfter, validUntil, ctx) ==
  [method |-> method, ValidAfter |-> validAfter, ValidUntil |-> validUntil, Context |-> ctx]

Methods == {"acceptAccount", "sigFailAccount", "acceptPaymaster", "sigFailPaymaster"}

\* (*big.Int).Uint64(): the low 64 bits.
Uint64(x) == x % W64

decodeMethodParamsToInterface(methodName, input) ==
  IF input.method \notin Methods THEN "unable to decode: no method with id"
  ELSE IF methodName # input.method THEN "unable to decode: got wrong method"
  ELSE Nil

abiDecodeAcceptAccount(input, allowSigFail) ==
  LET err1 == decodeMethodParamsToInterface("acceptAccount", input)
      err == IF err1 # Nil /\ allowSigFail
               THEN decodeMethodParamsToInterface("sigFailAccount", input) ELSE err1
  IN [err |-> err, ValidAfter |-> input.ValidAfter, ValidUntil |-> input.ValidUntil]

\* A decoder that takes a context of any size.
abiDecodeAcceptPaymasterOfAnySize(input, allowSigFail) ==
  LET err1 == decodeMethodParamsToInterface("acceptPaymaster", input)
      err == IF err1 # Nil /\ allowSigFail
               THEN decodeMethodParamsToInterface("sigFailPaymaster", input) ELSE err1
  IN IF err # Nil THEN [err |-> err, ValidAfter |-> 0, ValidUntil |-> 0, Context |-> 0]
     ELSE [err |-> Nil, ValidAfter |-> input.ValidAfter, ValidUntil |-> input.ValidUntil,
           Context |-> input.Context]
abiDecodeAcceptPaymaster(input, allowSigFail) ==
  LET err1 == decodeMethodParamsToInterface("acceptPaymaster", input)
      err == IF err1 # Nil /\ allowSigFail
               THEN decodeMethodParamsToInterface("sigFailPaymaster", input) ELSE err1
  IN IF err # Nil THEN [err |-> err, ValidAfter |-> 0, ValidUntil |-> 0, Context |-> 0]
     ELSE IF input.Context > PaymasterMaxContextSize
       THEN [err |-> "paymaster return data: context too large",
             ValidAfter |-> 0, ValidUntil |-> 0, Context |-> 0]
     ELSE [err |-> Nil, ValidAfter |-> input.ValidAfter, ValidUntil |-> input.ValidUntil,
           Context |-> input.Context]

NewEntryPointCall == [Input |-> None, From |-> ZeroAddress, err |-> Nil]

\* A check of the account callback that takes the signature-failure selector.
validateAccountEntryPointCallAllowsSigFail(e, sender) ==
  IF e.err # Nil THEN [err |-> e.err, ValidAfter |-> 0, ValidUntil |-> 0]
  ELSE IF e.Input = None
    THEN [err |-> "account validation did not call the EntryPoint 'acceptAccount' callback",
          ValidAfter |-> 0, ValidUntil |-> 0]
  ELSE IF e.From # sender
    THEN [err |-> "invalid call to EntryPoint contract from a wrong account address",
          ValidAfter |-> 0, ValidUntil |-> 0]
  ELSE abiDecodeAcceptAccount(e.Input[1], TRUE)
validateAccountEntryPointCall(e, sender) ==
  IF e.err # Nil THEN [err |-> e.err, ValidAfter |-> 0, ValidUntil |-> 0]
  ELSE IF e.Input = None
    THEN [err |-> "account validation did not call the EntryPoint 'acceptAccount' callback",
          ValidAfter |-> 0, ValidUntil |-> 0]
  ELSE IF e.From # sender
    THEN [err |-> "invalid call to EntryPoint contract from a wrong account address",
          ValidAfter |-> 0, ValidUntil |-> 0]
  ELSE abiDecodeAcceptAccount(e.Input[1], FALSE)

validatePaymasterEntryPointCall(e, paymaster) ==
  IF e.err # Nil THEN [err |-> e.err, ValidAfter |-> 0, ValidUntil |-> 0, Context |-> 0]
  ELSE IF e.Input = None
    THEN [err |-> "paymaster validation did not call the EntryPoint 'acceptPaymaster' callback",
          ValidAfter |-> 0, ValidUntil |-> 0, Context |-> 0]
  ELSE IF e.From # paymaster
    THEN [err |-> "invalid call to EntryPoint contract from a wrong paymaster address",
          ValidAfter |-> 0, ValidUntil |-> 0, Context |-> 0]
  ELSE abiDecodeAcceptPaymaster(e.Input[1], FALSE)

\* The hook on every call entry: the first call to ENTRY_POINT is captured,
\* a later one while the buffer is full marks the capture as failed.
EntryPointCallOnEnter(e, from, to, input) ==
  IF to # AA_ENTRY_POINT THEN e
  ELSE IF e.Input # None THEN [e EXCEPT !.err = "illegal repeated call to the EntryPoint callback"]
  ELSE [e EXCEPT !.Input = Some(input), !.From = from]

\* "clear the EntryPoint calls array after parsing"
ClearEntryPointCall(e) == [e EXCEPT !.err = Nil, !.Input = None, !.From = ZeroAddress]


(* ------------------------------- the EVM ------------------------------- *)
\* What a frame can report: it failed or not, the gas it used within the
\* budget, and what it added to the refund counter. The EVM reverts the
\* state changes and the refund of a failed frame.
\* A batch of one transaction is explored with every result below; a
\* longer batch with two results a frame: it fails having used its budget,
\* or succeeds having used half of it.
GasChoices(gasLimit) == {0, gasLimit \div 2, gasLimit}

\* A frame that failed having used all its gas ran out of it and returns
\* no data; one that reverted returns the data of its REVERT.
RevertReasons == {NoData, "08c379a0"}
AllFrameResults(gasLimit) ==
  { [failed |-> TRUE, UsedGas |-> gasLimit, refund |-> 0, ReturnData |-> NoData] }
  \cup { [failed |-> TRUE, UsedGas |-> u, refund |-> 0, ReturnData |-> d] :
            u \in GasChoices(gasLimit) \ {gasLimit}, d \in RevertReasons }
  \cup { [failed |-> FALSE, UsedGas |-> u, refund |-> r, ReturnData |-> NoData] :
            u \in GasChoices(gasLimit), r \in {0, 4} }

FewFrameResults(gasLimit) ==
  { [failed |-> TRUE, UsedGas |-> gasLimit, refund |-> 0, ReturnData |-> NoData],
    [failed |-> FALSE, UsedGas |-> gasLimit \div 2, refund |-> 0, ReturnData |-> NoData] }

FrameResults(batch, gasLimit) ==
  IF Len(batch) = 1 THEN AllFrameResults(gasLimit) ELSE FewFrameResults(gasLimit)

ValidationFrames == {"nonce", "deployer", "account", "paymaster"}
ExecutionFrames == {"execution", "postop"}

\* The calls a contract can make while a validation frame runs.
Callers(batch, tx) ==
  IF Len(batch) = 1 THEN {tx.Sender, "P", "X"} ELSE {tx.Sender, GasPayer(tx), "X"}
Callees == {AA_ENTRY_POINT, "X"}
\* header.Time of the block the batch belongs to.
BlockTime == 5
AllCallInputs ==
  { CallData("acceptAccount", 0, 0, 0),
    CallData("acceptAccount", BlockTime + 1, BlockTime + 2, 0),
    CallData("sigFailAccount", 0, 0, 0),
    CallData("acceptPaymaster", 0, 0, 0),
    CallData("acceptPaymaster", 0, 0, 1),
    CallData("acceptPaymaster", 0, 0, PaymasterMaxContextSize),
    CallData("acceptPaymaster", 0, 0, PaymasterMaxContextSize + 1),
    CallData("sigFailPaymaster", 0, 0, 0) }

FewCallInputs ==
  { CallData("acceptAccount", 0, 0, 0), CallData("acceptPaymaster", 0, 0, 1) }

CallInputs(batch) == IF Len(batch) = 1 THEN AllCallInputs ELSE FewCallInputs

(* ------------------------------ the state ------------------------------ *)
VARIABLES
  transactions, index, skipInvalid, header, chainConfig, cfg,  \* the driver's arguments
  caller,                     \* who calls the validation phases: the driver or traceTx
  pc,                         \* "loop", a running frame, "done" or "panic"
  i,                          \* the driver's position in transactions[index:]
  statedb, gp, usedGas,       \* state database, block gas pool, cumulative gas used
  beforeValidationSnapshot, beforeExecSnapshot,
  epc,                        \* the EntryPointCall buffer of the transaction
  st,                         \* the StateTransition of the running phase
  vpr,                        \* the ValidationPhaseResult being built
  loc,                        \* locals of ApplyRip7560ExecutionPhase
  validatedTransactions, receipts, validationFailureInfos, allLogs,
  ret,                        \* what handleRip7560Transactions returned
  hist,                       \* history of the transaction in progress
  call,                       \* a helper called on its own: name, arguments, result
  rpc,                        \* doCallRip7560Validation: its context, its EVM, its answer
  est                         \* the gas estimator: its bounds and where it stands

inputs == <<transactions, index, skipInvalid, header, chainConfig, cfg, caller>>
vars == <<transactions, index, skipInvalid, header, chainConfig, cfg, caller, pc, i,
          statedb, gp, usedGas, beforeValidationSnapshot, beforeExecSnapshot, epc, st, vpr, loc,
          validatedTransactions, receipts, validationFailureInfos, allLogs, ret, hist,
          call, rpc, est>>

\* The mutable state as one value, for the code between two frames.
Cur ==
  [ i |-> i, statedb |-> statedb, gp |-> gp, usedGas |-> usedGas,
    bvs |-> beforeValidationSnapshot, bes |-> beforeExecSnapshot,
    epc |-> epc, st |-> st, vpr |-> vpr, loc |-> loc,
    validatedTransactions |-> validatedTransactions, receipts |-> receipts,
    validationFailureInfos |-> validationFailureInfos, allLogs |-> allLogs,
    ret |-> ret, hist |-> hist ]

Commit(c, nextpc) ==
  /\ pc' = nextpc
  /\ i' = c.i
  /\ statedb' = c.statedb
  /\ gp' = c.gp
  /\ usedGas' = c.usedGas
  /\ beforeValidationSnapshot' = c.bvs
  /\ beforeExecSnapshot' = c.bes
  /\ epc' = c.epc
  /\ st' = c.st
  /\ vpr' = c.vpr
  /\ loc' = c.loc
  /\ validatedTransactions' = c.validatedTransactions
  /\ receipts' = c.receipts
  /\ validationFailureInfos' = c.validationFailureInfos
  /\ allLogs' = c.allLogs
  /\ ret' = c.ret
  /\ hist' = c.hist
  /\ UNCHANGED <<inputs, call, rpc, est>>

CurrentTx == transactions[index + i + 1]

RECURSIVE SeqsUpTo(_, _)
SeqsUpTo(S, n) ==
  IF n = 0 THEN {<<>>}
  ELSE LET shorter == SeqsUpTo(S, n - 1) IN
       shorter \cup { Append(q, x) : q \in shorter, x \in S }

\* A run of one transaction, a transaction of another type, and one more
\* transaction of the type of the pipeline behind it.
MixedBatch == <<TxPlain, TxLegacy, TxPaymaster>>

\* A validation gas limit that is the intrinsic cost, and one that is one
\* less.
TxExactIntrinsic ==
  [BaseTx EXCEPT !.ValidationGasLimit = PreTransactionGasCost(BaseTx).val]
TxBelowIntrinsic ==
  [BaseTx EXCEPT !.ValidationGasLimit = PreTransactionGasCost(BaseTx).val - 1]

\* A paymaster and no gas for its post-op.
TxPaymasterNoPostOp == [TxPaymaster EXCEPT !.PostOpGas = 0]

\* The batches of the transactions above that are not in the pool.
ExtraBatches ==
  {<<TxNextNonce>>, <<TxPlain, TxNextNonce>>, <<TxMaxNonce>>, <<TxHugeFee>>, MixedBatch,
   <<TxExactIntrinsic>>, <<TxBelowIntrinsic>>, <<TxPaymasterNoPostOp>>}

Batches == (SeqsUpTo(TxPool, MaxBatch) \ {<<>>}) \cup ExtraBatches

\* The caller hands over a position where a run can start: the start of the
\* list, or the position behind a transaction of another type.
Indexes(batch) ==
  {0} \cup {k \in 1..(Len(batch) - 1) : batch[k].Type # Rip7560Type}

\* The block and the configuration the driver runs under. London rules
\* hold exactly in the blocks whose header has a base fee.
Environments ==
  { [header |-> [Time |-> BlockTime, BaseFee |-> Some(1)],
     chainConfig |-> [IsLondon |-> TRUE, IsRIP7712 |-> TRUE],
     cfg |-> [NoBaseFee |-> FALSE]],
    [header |-> [Time |-> BlockTime, BaseFee |-> Some(1)],
     chainConfig |-> [IsLondon |-> TRUE, IsRIP7712 |-> TRUE],
     cfg |-> [NoBaseFee |-> TRUE]],
    [header |-> [Time |-> BlockTime, BaseFee |-> None],
     chainConfig |-> [IsLondon |-> FALSE, IsRIP7712 |-> FALSE],
     cfg |-> [NoBaseFee |-> FALSE]] }

InitialStateDB ==
  [ balance |-> [a \in Accounts |-> IF a = "S" THEN 200
                                    ELSE IF a \in {"N", "M"} THEN 100
                                    ELSE IF a = "P" THEN 400 ELSE 0],
    nonce |-> [a \in Accounts |-> IF a = "M" THEN MaxUint64 ELSE 0],
    code |-> [a \in Accounts |-> a \in {"S", "M", "P", "D", "X"}],
    storage |-> {},
    refund |-> 0,
    logs |-> <<>>,
    thash |-> None,
    txIndex |-> 0 ]

NoStateTransition == [initialGas |-> 0, gasRemaining |-> 0, gasLimit |-> 0]

NoValidationPhaseResult ==
  [ PaymasterContext |-> 0, PreCharge |-> 0, EffectiveGasPrice |-> 0,
    PreTransactionGasCost |-> 0, ValidationRefund |-> 0, NonceManagerUsedGas |-> 0,
    DeploymentUsedGas |-> 0, ValidationUsedGas |-> 0, PmValidationUsedGas |-> 0,
    SenderValidAfter |-> 0, SenderValidUntil |-> 0, PmValidAfter |-> 0, PmValidUntil |-> 0,
    TxIndex |-> 0 ]

NoLocals ==
  [ executionFailed |-> FALSE, executionUsedGas |-> 0, executionGasPenalty |-> 0,
    receiptStatus |-> ReceiptStatusSuccessful, executionStatus |-> ExecutionStatusSuccess,
    gasUsed |-> 0, gasRefund |-> 0,
    postOpRan |-> FALSE, postOpFailed |-> FALSE, postOpUsedGas |-> 0, postOpGasPenalty |-> 0,
    refundPaid |-> 0, coinbaseFee |-> 0, totalGasLimit |-> 0,
    paymasterPostOpMsg |-> None ]

NotReturned ==
  [ returned |-> FALSE, transactions |-> None, receipts |-> None,
    validationFailureInfos |-> None, allLogs |-> None, err |-> NoError ]

\* outcome: how the last transaction the driver handled ended;
\* txStart, gpStart, iStart, receiptsStart, validatedStart: the state, the
\* gas pool, the position and the lengths of the two lists when the driver
\* took it up;
\* frames: the frames invoked for it, in order; calls: the caller, the
\* callee and the gas limit CallFrame was given for each of them;
\* reverts: the snapshots the
\* pipeline reverted to; epCalls: the number of calls to ENTRY_POINT made in
\* the running frame, epFrom: the caller of the first of them;
\* accountCalls, accountFrom, paymasterCalls, paymasterFrom: the same for
\* the account and the paymaster frame once their callback was accepted;
\* validated: validation succeeded; vpe: the error it failed with;
\* reverted: the frame that failed, if one did, and the data it returned.
NoHistory ==
  [ outcome |-> "none", txStart |-> InitialStateDB, gpStart |-> 0, iStart |-> 0,
    receiptsStart |-> 0, validatedStart |-> 0, frames |-> <<>>, calls |-> <<>>,
    reverts |-> <<>>,
    epCalls |-> 0, epFrom |-> ZeroAddress,
    accountCalls |-> 0, accountFrom |-> ZeroAddress,
    paymasterCalls |-> 0, paymasterFrom |-> ZeroAddress, validated |-> FALSE,
    vpe |-> NoError, reverted |-> None ]

NoCall == [fn |-> "none", args |-> <<>>, result |-> Nil]

\* stage: the probe the estimator makes next; lo, hi: the bounds of its
\* search; optimisticGasLimit: the limit of its second probe; probes: the
\* parity of the number of probes made; err: the error it returned.
NoEstimate == [stage |-> "none", lo |-> 0, hi |-> 0, optimisticGasLimit |-> 0,
               probes |-> 0, err |-> Nil]

\* ctxDone: the context of the request is done (timeout or the caller);
\* cancelled: the abort flag of the EVM doCallRip7560Validation created;
\* answered, result, err: what the request returned.
NoRpc == [ctxDone |-> FALSE, cancelled |-> FALSE, answered |-> FALSE,
          result |-> None, err |-> Nil]

Init ==
  /\ transactions \in Batches
  /\ index \in Indexes(transactions)
  /\ skipInvalid \in BOOLEAN
  /\ \E env \in Environments :
       header = env.header /\ chainConfig = env.chainConfig /\ cfg = env.cfg
  /\ caller = "handleRip7560Transactions"
  /\ pc = "loop"
  /\ i = 0
  /\ statedb = InitialStateDB
  /\ gp = 100
  /\ usedGas = 0
  /\ beforeValidationSnapshot = None
  /\ beforeExecSnapshot = None
  /\ epc = NewEntryPointCall
  /\ st = NoStateTransition
  /\ vpr = NoValidationPhaseResult
  /\ loc = NoLocals
  /\ validatedTransactions = <<>>
  /\ receipts = <<>>
  /\ validationFailureInfos = <<>>
  /\ allLogs = <<>>
  /\ ret = NotReturned
  /\ hist = NoHistory
  /\ call = NoCall
  /\ rpc = NoRpc
  /\ est = NoEstimate


(* ----------------------- snapshots and the frames ---------------------- *)
Snapshot(sdb) == Some(sdb)
\* A revert that leaves the state as it is.
RevertToSnapshotKeepsState(sdb, snapshot) == sdb
RevertToSnapshot(sdb, snapshot) == snapshot[1]

SetTxContext(sdb, thash, ti) == [sdb EXCEPT !.thash = Some(thash), !.txIndex = ti]

\* The "from" and "to" that CallFrame is given for each frame.
FrameFrom(name) == IF name = "deployer" THEN AA_SENDER_CREATOR ELSE AA_ENTRY_POINT
FrameTo(name, tx) ==
  CASE name = "nonce" -> AA_NONCE_MANAGER
    [] name = "deployer" -> tx.Deployer
    [] name \in {"account", "execution"} -> tx.Sender
    [] name \in {"paymaster", "postop"} -> tx.Paymaster

\* The pipeline hands a frame to the EVM: from now on the frame runs.
StartFrame(c, name, gasLimit) ==
  Commit([c EXCEPT !.st.gasLimit = gasLimit,
                   !.hist.frames = Append(@, name),
                   !.hist.calls = Append(@, [from |-> FrameFrom(name),
                                             to |-> FrameTo(name, transactions[index + c.i + 1]),
                                             gas |-> gasLimit]),
                   !.hist.epCalls = 0,
                   !.hist.epFrom = ZeroAddress], name)

\* CallFrame, once evm.Call has returned r: the gas of the state transition
\* and what the frame left in the state.
CallFrame(c, name, r) ==
  [c EXCEPT !.hist.reverted = IF r.failed THEN Some([frame |-> name, data |-> r.ReturnData])
                               ELSE @,
            !.st.gasRemaining = U64(@ - r.UsedGas),
            !.statedb.storage = IF r.failed THEN @ ELSE @ \cup {<<c.statedb.txIndex, name>>},
            !.statedb.refund = IF r.failed THEN @ ELSE U64(@ + r.refund)]

(* ----------------- handleRip7560Transactions: failures ----------------- *)
Rip7560TransactionDebugInfo(tx, vpe) ==
  IF vpe.isVPE
    THEN [TxHash |-> Hash(tx), RevertData |-> vpe.reason, FrameReverted |-> vpe.frameReverted,
          RevertEntityName |-> IF vpe.revertEntityName # Nil THEN vpe.revertEntityName ELSE ""]
    ELSE [TxHash |-> Hash(tx), RevertData |-> vpe.msg, FrameReverted |-> FALSE,
          RevertEntityName |-> "n/a"]

\* A driver that skips the failed transaction in both modes.
ValidationFailedAlwaysSkips(c, tx, vpe) ==
  Commit([c EXCEPT !.validationFailureInfos =
                      Append(@, Rip7560TransactionDebugInfo(tx, vpe)),
                   !.statedb = RevertToSnapshot(c.statedb, c.bvs),
                   !.hist.reverts = Append(@, "validation"),
                   !.hist.outcome = "skipped",
                   !.hist.vpe = vpe,
                   !.i = @ + 1], "loop")
\* A driver that reads the entity name of the error without testing it
\* for nil.
ValidationFailedDereferencesEntity(c, tx, vpe) ==
  IF skipInvalid
    THEN IF vpe.isVPE /\ vpe.revertEntityName = Nil
           THEN Commit([c EXCEPT !.validationFailureInfos =
                                    Append(@, [TxHash |-> Hash(tx), RevertData |-> vpe.reason,
                                               FrameReverted |-> vpe.frameReverted,
                                               RevertEntityName |-> "n/a"]),
                                 !.hist.outcome = "panic"], "panic")
           ELSE ValidationFailedAlwaysSkips(c, tx, vpe)
    ELSE Commit([c EXCEPT !.ret = [NotReturned EXCEPT !.returned = TRUE, !.err = vpe],
                          !.hist.outcome = "fatal",
                          !.hist.vpe = vpe], "done")
\* ApplyRip7560ValidationPhases returned vpe: skip the transaction when
\* building, return the error when applying a block.
ValidationFailed(c, tx, vpe) ==
  IF skipInvalid
    THEN Commit([c EXCEPT !.validationFailureInfos =
                             Append(@, Rip7560TransactionDebugInfo(tx, vpe)),
                          !.statedb = RevertToSnapshot(c.statedb, c.bvs),
                          !.hist.reverts = Append(@, "validation"),
                          !.hist.outcome = "skipped",
                          !.hist.vpe = vpe,
                          !.i = @ + 1], "loop")
    ELSE Commit([c EXCEPT !.ret = [returned |-> TRUE, transactions |-> None,
                                   receipts |-> None, validationFailureInfos |-> None,
                                   allLogs |-> None, err |-> vpe],
                          !.hist.outcome = "fatal",
                          !.hist.vpe = vpe],
                IF caller = "doCallRip7560Validation" THEN "answer" ELSE "done")

(* ---------------------- ApplyRip7560ExecutionPhase --------------------- *)
\* A refund that prices the gas at the fee cap.
refundPayerAtFeeCap(c, tx, gasUsed) ==
  LET chargeFrom == GasPayer(tx)
      actualGasCost == U256(tx.GasFeeCap * gasUsed)
      refund == U256(c.vpr.PreCharge - actualGasCost)
  IN [c EXCEPT !.statedb = AddBalance(@, chargeFrom, refund), !.loc.refundPaid = refund]
refundPayer(c, tx, gasUsed) ==
  LET chargeFrom == GasPayer(tx)
      actualGasCost == U256(c.vpr.EffectiveGasPrice * gasUsed)
      refund == U256(c.vpr.PreCharge - actualGasCost)
  IN [c EXCEPT !.statedb = AddBalance(@, chargeFrom, refund), !.loc.refundPaid = refund]

EffectiveTip(msg) ==
  IF chainConfig.IsLondon
    THEN Min(msg.GasTipCap, msg.GasFeeCap - header.BaseFee[1])
    ELSE msg.GasTipCap

payCoinbase(c, msg, gasUsed) ==
  LET effectiveTipU256 == U256(EffectiveTip(msg))
      fee == U256(gasUsed * effectiveTipU256)
  IN IF cfg.NoBaseFee /\ msg.GasFeeCap = 0 /\ msg.GasTipCap = 0
       THEN [c EXCEPT !.loc.coinbaseFee = 0]
       ELSE [c EXCEPT !.statedb = AddBalance(@, Coinbase, fee), !.loc.coinbaseFee = fee]

Log(sdb, event, executionStatus) ==
  [Address |-> AA_ENTRY_POINT, Event |-> event, executionStatus |-> executionStatus,
   TxHash |-> sdb.thash[1], TxIndex |-> sdb.txIndex]

\* The transaction event injected last.
injectEventsStatusLast(sdb, aatx, l) ==
  LET s2 == IF aatx.Deployer # Nil
              THEN AddLog(sdb, Log(sdb, "RIP7560AccountDeployed", 0)) ELSE sdb
      s3 == IF l.executionFailed
              THEN AddLog(s2, Log(s2, "RIP7560TransactionRevertReason", 0)) ELSE s2
      s4 == IF l.postOpRan /\ l.postOpFailed
              THEN AddLog(s3, Log(s3, "RIP7560TransactionPostOpRevertReason", 0)) ELSE s3
  IN AddLog(s4, Log(s4, "RIP7560TransactionEvent", l.executionStatus))
injectEvents(sdb, aatx, l) ==
  LET s1 == AddLog(sdb, Log(sdb, "RIP7560TransactionEvent", l.executionStatus))
      s2 == IF aatx.Deployer # Nil
              THEN AddLog(s1, Log(s1, "RIP7560AccountDeployed", 0)) ELSE s1
      s3 == IF l.executionFailed
              THEN AddLog(s2, Log(s2, "RIP7560TransactionRevertReason", 0)) ELSE s2
      s4 == IF l.postOpRan /\ l.postOpFailed
              THEN AddLog(s3, Log(s3, "RIP7560TransactionPostOpRevertReason", 0)) ELSE s3
  IN s4

\* From "gasUsed -= gasRefund" to the receipt, then the driver's
\* Finalise and its two appends.
Settle(c0, tx) ==
  LET gasUsed == U64(c0.loc.gasUsed - c0.loc.gasRefund)
      c1 == refundPayer(c0, tx, gasUsed)
      c2 == payCoinbase(c1, tx, gasUsed)
      totalGasLimit == TotalGasLimit(tx).val
      gasRemaining == totalGasLimit - gasUsed
      sdb == injectEvents(c2.statedb, tx, c2.loc)
      cumulative == U64(c2.usedGas + gasUsed)
      logs == GetLogs(sdb, Hash(tx))
      receipt == [Type |-> tx.Type, TxHash |-> Hash(tx), GasUsed |-> gasUsed,
                  CumulativeGasUsed |-> cumulative, Status |-> c2.loc.receiptStatus,
                  Logs |-> logs, TransactionIndex |-> c2.vpr.TxIndex]
  IN
  IF totalGasLimit < gasUsed
    THEN \* panic("cannot spend more gas than the total limit")
         Commit([c2 EXCEPT !.loc.gasUsed = gasUsed, !.loc.totalGasLimit = totalGasLimit,
                           !.hist.outcome = "panic"], "panic")
    ELSE Commit([c2 EXCEPT !.loc.gasUsed = gasUsed, !.loc.totalGasLimit = totalGasLimit,
                           !.gp = @ + gasRemaining,
                           !.usedGas = cumulative,
                           !.statedb = Finalise(sdb),
                           !.bes = None,
                           !.receipts = Append(@, receipt),
                           !.allLogs = @ \o logs,
                           !.hist.outcome = "executed",
                           !.i = @ + 1], "loop")

UnusedGasPenalty(gasLimit, used) == U64(U64(gasLimit - used) * AA_GAS_PENALTY_PCT) \div 100

\* The execution status after a failed post-op, as the code assigns it.
PostOpFailureStatus(executionStatus) ==
  LET s == IF executionStatus = ExecutionStatusExecutionFailure
             THEN ExecutionStatusExecutionAndPostOpFailure ELSE executionStatus
  IN ExecutionStatusPostOpFailure

\* CallFrame leaves ExecutionResult.RefundedGas at its zero value.
RefundedGas(r) == 0

\* A post-op frame that is told the execution succeeded, whatever it did.
applyPaymasterPostOpFrameAlwaysSuccess(c, tx, success, gasUsed) ==
  StartFrame([c EXCEPT !.loc.paymasterPostOpMsg =
                Some([success |-> TRUE, actualGasCost |-> gasUsed,
                      context |-> c.vpr.PaymasterContext])],
             "postop", tx.PostOpGas)
\* applyPaymasterPostOpFrame, up to the call: the message is
\* postPaymasterTransaction(success, actualGasCost, context).
applyPaymasterPostOpFrame(c, tx, success, gasUsed) ==
  StartFrame([c EXCEPT !.loc.paymasterPostOpMsg =
                Some([success |-> success, actualGasCost |-> gasUsed,
                      context |-> c.vpr.PaymasterContext])],
             "postop", tx.PostOpGas)

\* After the account execution frame: lines up to the post-op call.
AfterExecutionFrame(c0, tx, r) ==
  LET c1 == CallFrame(c0, "execution", r)
      execRefund == capRefund(c1.statedb.refund, r.UsedGas)
      executionGasPenalty == UnusedGasPenalty(tx.Gas, r.UsedGas)
      validationPhaseUsedGas ==
        SumGas(<< c1.vpr.PreTransactionGasCost, c1.vpr.NonceManagerUsedGas,
                  c1.vpr.DeploymentUsedGas, c1.vpr.ValidationUsedGas,
                  c1.vpr.PmValidationUsedGas >>).val
      gasUsed == U64(validationPhaseUsedGas + r.UsedGas + executionGasPenalty)
      gasRefund == capRefund(U64(execRefund + c1.vpr.ValidationRefund), gasUsed)
      c2 == [c1 EXCEPT !.loc = [NoLocals EXCEPT
               !.executionFailed = r.failed,
               !.executionUsedGas = r.UsedGas,
               !.executionGasPenalty = executionGasPenalty,
               !.receiptStatus = IF r.failed THEN ReceiptStatusFailed
                                 ELSE ReceiptStatusSuccessful,
               !.executionStatus = IF r.failed THEN ExecutionStatusExecutionFailure
                                   ELSE ExecutionStatusSuccess,
               !.gasUsed = gasUsed,
               !.gasRefund = gasRefund]]
  IN IF c1.vpr.PaymasterContext # 0
       THEN applyPaymasterPostOpFrame(c2, tx, ~r.failed, U64(gasUsed - gasRefund))
       ELSE Settle(c2, tx)

\* A failed post-op that keeps the changes of the execution phase.
PostOpFailedKeepsChanges(c) ==
  [c EXCEPT !.loc.receiptStatus = ReceiptStatusFailed,
            !.loc.executionStatus = PostOpFailureStatus(@)]
\* A failed post-op that leaves the status of the receipt as it is.
PostOpFailedKeepsReceiptStatus(c) ==
  [c EXCEPT !.statedb = RevertToSnapshot(@, c.bes),
            !.hist.reverts = Append(@, "execution"),
            !.loc.executionStatus = PostOpFailureStatus(@)]
\* "PostOp failed, reverting execution changes"
PostOpFailed(c) ==
  [c EXCEPT !.statedb = RevertToSnapshot(@, c.bes),
            !.hist.reverts = Append(@, "execution"),
            !.loc.receiptStatus = ReceiptStatusFailed,
            !.loc.executionStatus = PostOpFailureStatus(@)]

\* After the paymaster post-op frame.
AfterPostOpFrame(c0, tx, r) ==
  LET c1 == CallFrame(c0, "postop", r)
      gasRefund == U64(c1.loc.gasRefund + capRefund(RefundedGas(r), r.UsedGas))
      c2 == IF r.failed THEN PostOpFailed(c1) ELSE c1
      postOpGasPenalty == UnusedGasPenalty(tx.PostOpGas, r.UsedGas)
      postOpGasUsed == U64(r.UsedGas + postOpGasPenalty)
      c3 == [c2 EXCEPT !.loc.postOpRan = TRUE,
                       !.loc.postOpFailed = r.failed,
                       !.loc.postOpUsedGas = r.UsedGas,
                       !.loc.postOpGasPenalty = postOpGasPenalty,
                       !.loc.gasRefund = gasRefund,
                       !.loc.gasUsed = U64(@ + postOpGasUsed)]
  IN Settle(c3, tx)

\* traceTx took the validation result: it drops it and returns the tracer's.
TraceReturns(c) ==
  Commit([c EXCEPT !.ret = [NotReturned EXCEPT !.returned = TRUE],
                   !.hist.validated = TRUE,
                   !.hist.outcome = "traced"], "done")

\* The driver took the validation result: the execution phase starts.
BeginExecution(c, tx) ==
  LET c1 == [c EXCEPT !.validatedTransactions = Append(@, tx),
                      !.st = [initialGas |-> MaxUint64, gasRemaining |-> MaxUint64,
                              gasLimit |-> 0],
                      !.bes = Snapshot(c.statedb),
                      !.hist.validated = TRUE]
  IN StartFrame(c1, "execution", tx.Gas)


(* --------------------- ApplyRip7560ValidationPhases -------------------- *)
\* The validation result is complete: GetRefund, the result, Finalise.
FinishValidation(c, tx, apd, pmValidationUsedGas) ==
  LET c1 == [c EXCEPT !.vpr.PaymasterContext = apd.Context,
                      !.vpr.ValidationRefund = c.statedb.refund,
                      !.vpr.PmValidationUsedGas = pmValidationUsedGas,
                      !.vpr.PmValidAfter = Uint64(apd.ValidAfter),
                      !.vpr.PmValidUntil = Uint64(apd.ValidUntil),
                      !.statedb = Finalise(c.statedb),
                      !.bvs = None]
  IN IF caller = "traceTx" THEN TraceReturns(c1)
     ELSE IF caller = "doCallRip7560Validation"
       THEN Commit([c1 EXCEPT !.hist.validated = TRUE], "answer")
     ELSE BeginExecution(c1, tx)

NoPaymasterData == [err |-> Nil, ValidAfter |-> 0, ValidUntil |-> 0, Context |-> 0]

\* preparePaymasterValidationMessage returns nil for no paymaster.
HasPaymasterMessage(tx) == ~(tx.Paymaster = Nil \/ tx.Paymaster = ZeroAddress)

\* A paymaster frame whose context is taken whatever the post-op gas is.
AfterPaymasterFrameWithoutPostOpGasCheck(c0, tx, r) ==
  LET c1 == CallFrame(c0, "paymaster", r)
      apd == validatePaymasterEntryPointCall(c1.epc, tx.Paymaster)
      timeErr == validateAcceptedTimeRange(header.Time, apd.ValidAfter, apd.ValidUntil)
  IN
  IF r.failed
    THEN ValidationFailed(c1, tx,
           newValidationPhaseError(PlainError("paymaster frame failed"), r.ReturnData, "paymaster", TRUE))
  ELSE IF apd.err # Nil
    THEN ValidationFailed(c1, tx, wrapError(PlainError(apd.err)))
  ELSE IF timeErr # Nil
    THEN ValidationFailed(c1, tx, wrapError(PlainError(timeErr)))
  ELSE FinishValidation([c1 EXCEPT !.hist.paymasterCalls = c0.hist.epCalls,
                                   !.hist.paymasterFrom = c0.hist.epFrom],
                        tx, apd, r.UsedGas)
\* After the paymaster validation frame.
AfterPaymasterFrame(c0, tx, r) ==
  LET c1 == CallFrame(c0, "paymaster", r)
      apd == validatePaymasterEntryPointCall(c1.epc, tx.Paymaster)
      timeErr == validateAcceptedTimeRange(header.Time, apd.ValidAfter, apd.ValidUntil)
  IN
  IF r.failed
    THEN ValidationFailed(c1, tx,
           newValidationPhaseError(PlainError("paymaster frame failed"), r.ReturnData, "paymaster", TRUE))
  ELSE IF apd.err # Nil
    THEN ValidationFailed(c1, tx, wrapError(PlainError(apd.err)))
  ELSE IF timeErr # Nil
    THEN ValidationFailed(c1, tx, wrapError(PlainError(timeErr)))
  ELSE IF apd.Context > 0 /\ tx.PostOpGas = 0
    THEN ValidationFailed(c1, tx,
           wrapError(PlainError("paymaster returned a context but the paymasterPostOpGasLimit is 0")))
  ELSE FinishValidation([c1 EXCEPT !.hist.paymasterCalls = c0.hist.epCalls,
                                   !.hist.paymasterFrom = c0.hist.epFrom],
                        tx, apd, r.UsedGas)

\* After the account validation frame, up to the paymaster frame.
AfterAccountFrame(c0, tx, r) ==
  LET c1 == CallFrame(c0, "account", r)
      aad == validateAccountEntryPointCall(c1.epc, tx.Sender)
      timeErr == validateAcceptedTimeRange(header.Time, aad.ValidAfter, aad.ValidUntil)
      c2 == [c1 EXCEPT !.epc = ClearEntryPointCall(@)]
      c3 == [c2 EXCEPT !.vpr.ValidationUsedGas = r.UsedGas,
                       !.vpr.SenderValidAfter = Uint64(aad.ValidAfter),
                       !.vpr.SenderValidUntil = Uint64(aad.ValidUntil),
                       !.hist.accountCalls = c0.hist.epCalls,
                       !.hist.accountFrom = c0.hist.epFrom]
  IN
  IF r.failed
    THEN ValidationFailed(c1, tx,
           newValidationPhaseError(PlainError("account frame failed"), r.ReturnData, "account", TRUE))
  ELSE IF aad.err # Nil
    THEN ValidationFailed(c1, tx, wrapError(PlainError(aad.err)))
  ELSE IF timeErr # Nil
    THEN ValidationFailed(c2, tx, wrapError(PlainError(timeErr)))
  ELSE IF HasPaymasterMessage(tx)
    THEN StartFrame(c3, "paymaster", tx.PaymasterValidationGasLimit)
  ELSE FinishValidation(c3, tx, NoPaymasterData, 0)

StartAccountFrame(c, tx) ==
  LET accountGasLimit == U64(U64(tx.ValidationGasLimit - c.vpr.PreTransactionGasCost)
                             - c.vpr.DeploymentUsedGas)
  IN StartFrame(c, "account", accountGasLimit)

\* A deployer frame whose success is enough.
AfterDeployerFrameWithoutCodeCheck(c0, tx, r, deployed) ==
  LET c1 == CallFrame(c0, "deployer", r)
      c2 == IF ~r.failed /\ deployed
              THEN [c1 EXCEPT !.statedb.code[tx.Sender] = TRUE] ELSE c1
  IN
  IF r.failed
    THEN ValidationFailed(c2, tx,
           newValidationPhaseError(PlainError("deployer frame failed"), r.ReturnData, "deployer", TRUE))
  ELSE StartAccountFrame([c2 EXCEPT !.vpr.DeploymentUsedGas = r.UsedGas], tx)
\* After the deployer frame; deployed: the frame left code at the sender.
AfterDeployerFrame(c0, tx, r, deployed) ==
  LET c1 == CallFrame(c0, "deployer", r)
      c2 == IF ~r.failed /\ deployed
              THEN [c1 EXCEPT !.statedb.code[tx.Sender] = TRUE] ELSE c1
  IN
  IF r.failed
    THEN ValidationFailed(c2, tx,
           newValidationPhaseError(PlainError("deployer frame failed"), r.ReturnData, "deployer", TRUE))
  ELSE IF GetCodeSize(c2.statedb, tx.Sender) = 0
    THEN ValidationFailed(c2, tx,
           wrapError(PlainError("sender not deployed by the deployer")))
  ELSE StartAccountFrame([c2 EXCEPT !.vpr.DeploymentUsedGas = r.UsedGas], tx)

\* A validation that goes to the account frame without the deployer frame.
AfterNonceCheckSkipsDeployer(c, tx) ==
  IF ~IsRip7712Nonce(tx) /\ tx.Deployer = Nil
    THEN StartAccountFrame(
           [c EXCEPT !.statedb = SetNonce(@, tx.Sender, U64(GetNonce(@, tx.Sender) + 1))], tx)
  ELSE StartAccountFrame(c, tx)
\* The nonce is checked: the deployer frame, or the nonce increment and
\* the account frame.
\* A validation that leaves the nonce of the sender as it is.
AfterNonceCheckKeepsNonce(c, tx) ==
  IF tx.Deployer # Nil
    THEN StartFrame(c, "deployer", U64(tx.ValidationGasLimit - c.vpr.PreTransactionGasCost))
  ELSE StartAccountFrame(c, tx)
AfterNonceCheck(c, tx) ==
  IF tx.Deployer # Nil
    THEN StartFrame(c, "deployer", U64(tx.ValidationGasLimit - c.vpr.PreTransactionGasCost))
  ELSE IF ~IsRip7712Nonce(tx)
    THEN StartAccountFrame(
           [c EXCEPT !.statedb = SetNonce(@, tx.Sender, U64(GetNonce(@, tx.Sender) + 1))], tx)
  ELSE StartAccountFrame(c, tx)

\* performNonceCheckFrameRip7712, after the nonce manager frame.
AfterNonceManagerFrame(c0, tx, r) ==
  LET c1 == CallFrame(c0, "nonce", r) IN
  IF r.failed
    THEN ValidationFailed(c1, tx,
           newValidationPhaseError(PlainError("RIP-7712 nonce validation failed"), r.ReturnData,
                                   "NonceManager", TRUE))
  ELSE AfterNonceCheck([c1 EXCEPT !.vpr.NonceManagerUsedGas = r.UsedGas], tx)

\* A static check that lets a nonce lower than the account's pass.
CheckNonceStaticAcceptsLow(sdb, tx) ==
  LET stNonce == GetNonce(sdb, tx.Sender)
      msgNonce == tx.Nonce
  IN IF stNonce < msgNonce THEN "nonce too high"
     ELSE IF U64(stNonce + 1) < stNonce THEN "nonce has max value"
     ELSE Nil
\* The static nonce check of a transaction without a two-dimensional nonce.
CheckNonceStatic(sdb, tx) ==
  LET stNonce == GetNonce(sdb, tx.Sender)
      msgNonce == tx.Nonce
  IN IF stNonce < msgNonce THEN "nonce too high"
     ELSE IF stNonce > msgNonce THEN "nonce too low"
     ELSE IF U64(stNonce + 1) < stNonce THEN "nonce has max value"
     ELSE Nil

\* A nonce check that calls the nonce manager in every block.
CheckNonceRip7560InEveryBlock(c, tx) ==
  IF IsRip7712Nonce(tx)
    THEN StartFrame(c, "nonce", c.st.gasRemaining)
    ELSE LET err == CheckNonceStatic(c.statedb, tx) IN
         IF err # Nil THEN ValidationFailed(c, tx, PlainError(err))
         ELSE AfterNonceCheck(c, tx)
CheckNonceRip7560(c, tx) ==
  IF IsRip7712Nonce(tx)
    THEN IF ~chainConfig.IsRIP7712
           THEN ValidationFailed(c, tx, wrapError(PlainError("RIP-7712 nonce is disabled")))
           ELSE StartFrame(c, "nonce", c.st.gasRemaining)
    ELSE LET err == CheckNonceStatic(c.statedb, tx) IN
         IF err # Nil THEN ValidationFailed(c, tx, PlainError(err))
         ELSE AfterNonceCheck(c, tx)

\* ApplyRip7560ValidationPhases up to the first frame.
BeginValidation(c, tx) ==
  LET err == performStaticValidation(tx, c.statedb)
      gasPrice == EffectiveGasPrice(tx, header.BaseFee)
      effectiveGasPrice == U256(gasPrice)
      buy == BuyGasRip7560Transaction(tx, c.statedb, effectiveGasPrice, c.gp)
      pre == PreTransactionGasCost(tx)
      c1 == [c EXCEPT !.statedb = buy.statedb,
                      !.gp = buy.gp]
      c2 == [c1 EXCEPT !.epc = NewEntryPointCall,
                       !.st = [initialGas |-> buy.gasLimit, gasRemaining |-> buy.gasLimit,
                               gasLimit |-> 0],
                       !.vpr = [NoValidationPhaseResult EXCEPT
                                  !.PreCharge = buy.preCharge,
                                  !.EffectiveGasPrice = effectiveGasPrice,
                                  !.PreTransactionGasCost = pre.val]]
  IN
  IF err # Nil THEN ValidationFailed(c, tx, wrapError(PlainError(err)))
  ELSE IF buy.err.msg # Nil THEN ValidationFailed(c1, tx, wrapError(buy.err))
  ELSE IF pre.err # Nil THEN ValidationFailed(c2, tx, PlainError(pre.err))
  ELSE CheckNonceRip7560(c2, tx)

(* ------------------------------- actions ------------------------------- *)
\* One turn of the driver's loop, up to the first frame of the transaction
\* or to the end of the loop.
\* A loop that ends only with the list.
LoopBreaksAtEndOnly == index + i >= Len(transactions)
\* "for i, tx := range transactions[index:]" is over, or breaks.
LoopBreaks == index + i >= Len(transactions) \/ CurrentTx.Type # Rip7560Type

HandleNext ==
  /\ pc = "loop"
  /\ IF LoopBreaks
       THEN Commit([Cur EXCEPT !.ret =
                      [returned |-> TRUE, transactions |-> Some(validatedTransactions),
                       receipts |-> Some(receipts),
                       validationFailureInfos |-> Some(validationFailureInfos),
                       allLogs |-> Some(allLogs), err |-> NoError]], "done")
       ELSE LET tx == CurrentTx
                sdb == SetTxContext(statedb, Hash(tx), index + i)
                c == [Cur EXCEPT !.statedb = sdb,
                                 !.bvs = Snapshot(sdb),
                                 !.epc = NewEntryPointCall,
                                 !.st = NoStateTransition,
                                 !.vpr = NoValidationPhaseResult,
                                 !.loc = NoLocals,
                                 !.hist = [NoHistory EXCEPT !.txStart = sdb, !.gpStart = gp,
                                            !.iStart = i,
                                            !.receiptsStart = Len(receipts),
                                            !.validatedStart = Len(validatedTransactions)]]
            IN BeginValidation(c, tx)

\* The tracer hook, on a call made inside a running validation frame.
OnEnter ==
  /\ pc \in ValidationFrames
  /\ hist.epCalls < MaxCalls
  /\ \E from \in Callers(transactions, CurrentTx), to \in Callees,
        input \in CallInputs(transactions) :
       Commit([Cur EXCEPT !.epc = EntryPointCallOnEnter(@, from, to, input),
                          !.hist.epCalls = IF to = AA_ENTRY_POINT THEN @ + 1 ELSE @,
                          !.hist.epFrom = IF to = AA_ENTRY_POINT /\ hist.epCalls = 0
                                            THEN from ELSE @],
              pc)

NonceManagerFrameReturns ==
  /\ pc = "nonce"
  /\ \E r \in FrameResults(transactions, st.gasLimit) : AfterNonceManagerFrame(Cur, CurrentTx, r)

DeployerFrameReturns ==
  /\ pc = "deployer"
  /\ \E r \in FrameResults(transactions, st.gasLimit), deployed \in BOOLEAN :
       AfterDeployerFrame(Cur, CurrentTx, r, deployed)

AccountFrameReturns ==
  /\ pc = "account"
  /\ \E r \in FrameResults(transactions, st.gasLimit) : AfterAccountFrame(Cur, CurrentTx, r)

PaymasterFrameReturns ==
  /\ pc = "paymaster"
  /\ \E r \in FrameResults(transactions, st.gasLimit) : AfterPaymasterFrame(Cur, CurrentTx, r)

ExecutionFrameReturns ==
  /\ pc = "execution"
  /\ \E r \in FrameResults(transactions, st.gasLimit) : AfterExecutionFrame(Cur, CurrentTx, r)

PostOpFrameReturns ==
  /\ pc = "postop"
  /\ \E r \in FrameResults(transactions, st.gasLimit) : AfterPostOpFrame(Cur, CurrentTx, r)

Next ==
  \/ HandleNext
  \/ OnEnter
  \/ NonceManagerFrameReturns
  \/ DeployerFrameReturns
  \/ AccountFrameReturns
  \/ PaymasterFrameReturns
  \/ ExecutionFrameReturns
  \/ PostOpFrameReturns

Spec == Init /\ [][Next]_vars

(* ------------------------------- tracing ------------------------------- *)
\* debug_traceRip7560Validation: traceTx runs the validation phases of one
\* transaction on the state of a block, with a gas pool of its own and
\* NoBaseFee set, and returns what the tracer collected.
TraceTxs == TxPool \ {TxLegacy}

TraceInit ==
  /\ transactions \in {<<tx>> : tx \in TraceTxs}
  /\ index = 0
  /\ skipInvalid = FALSE
  /\ \E env \in Environments :
       header = env.header /\ chainConfig = env.chainConfig
  /\ cfg = [NoBaseFee |-> TRUE]
  /\ caller = "traceTx"
  /\ pc = "trace"
  /\ i = 0
  /\ statedb = InitialStateDB
  /\ gp = 0
  /\ usedGas = 0
  /\ beforeValidationSnapshot = None
  /\ beforeExecSnapshot = None
  /\ epc = NewEntryPointCall
  /\ st = NoStateTransition
  /\ vpr = NoValidationPhaseResult
  /\ loc = NoLocals
  /\ validatedTransactions = <<>>
  /\ receipts = <<>>
  /\ validationFailureInfos = <<>>
  /\ allLogs = <<>>
  /\ ret = NotReturned
  /\ hist = NoHistory
  /\ call = NoCall
  /\ rpc = NoRpc
  /\ est = NoEstimate

\* txctx is a new Context: the zero hash and the index 0.
TraceTx ==
  /\ pc = "trace"
  /\ LET tx == transactions[1]
         sdb == [statedb EXCEPT !.thash = None, !.txIndex = 0]
         c == [Cur EXCEPT !.statedb = sdb,
                          !.gp = MaxUint64,
                          !.hist = [NoHistory EXCEPT !.txStart = sdb, !.gpStart = MaxUint64]]
     IN IF tx.Sender = ZeroAddress
          THEN Commit([c EXCEPT !.ret = [NotReturned EXCEPT !.returned = TRUE],
                                !.hist.outcome = "traced"], "done")
          ELSE BeginValidation(c, tx)

TraceNext ==
  \/ TraceTx
  \/ OnEnter
  \/ NonceManagerFrameReturns
  \/ DeployerFrameReturns
  \/ AccountFrameReturns
  \/ PaymasterFrameReturns

Tracing == TraceInit /\ [][TraceNext]_vars

(* ------------------------------ simulation ----------------------------- *)
\* doCallRip7560Validation: the validation phases of one transaction on the
\* state of a block, while a watcher waits for the request's context and
\* then cancels the EVM the request created. ApplyRip7560ValidationPhases
\* runs the frames on an EVM of its own, which nothing else refers to.
SimulateInit ==
  /\ transactions \in {<<tx>> : tx \in TraceTxs}
  /\ index = 0
  /\ skipInvalid = FALSE
  /\ header = [Time |-> BlockTime, BaseFee |-> Some(1)]
  /\ chainConfig \in {env.chainConfig : env \in Environments}
  /\ cfg = [NoBaseFee |-> TRUE]
  /\ caller = "doCallRip7560Validation"
  /\ pc = "simulate"
  /\ i = 0
  /\ statedb = [InitialStateDB EXCEPT !.balance["N"] = 200]  \* overrides.Apply(state)
  /\ gp = 0
  /\ usedGas = 0
  /\ beforeValidationSnapshot = None
  /\ beforeExecSnapshot = None
  /\ epc = NewEntryPointCall
  /\ st = NoStateTransition
  /\ vpr = NoValidationPhaseResult
  /\ loc = NoLocals
  /\ validatedTransactions = <<>>
  /\ receipts = <<>>
  /\ validationFailureInfos = <<>>
  /\ allLogs = <<>>
  /\ ret = NotReturned
  /\ hist = NoHistory
  /\ call = NoCall
  /\ rpc = NoRpc
  /\ est = NoEstimate

Answers(result, err) ==
  /\ rpc' = [rpc EXCEPT !.answered = TRUE, !.result = result, !.err = err,
                        !.ctxDone = TRUE]
  /\ pc' = "done"
  /\ UNCHANGED <<inputs, i, statedb, gp, usedGas, beforeValidationSnapshot,
                 beforeExecSnapshot, epc, st, vpr, loc, validatedTransactions, receipts,
                 validationFailureInfos, allLogs, ret, hist, call, est>>

\* The request buys the gas and calls the validation phases.
SimulateCall ==
  /\ pc = "simulate"
  /\ LET tx == transactions[1]
         sum == header.BaseFee[1] + tx.GasTipCap
         gasPrice == IF sum > tx.GasFeeCap THEN tx.GasFeeCap ELSE sum
         buy == BuyGasRip7560Transaction(tx, statedb, U256(gasPrice), MaxUint64)
         c == [Cur EXCEPT !.statedb = buy.statedb,
                          !.gp = buy.gp,
                          !.hist = [NoHistory EXCEPT !.txStart = buy.statedb,
                                                     !.gpStart = buy.gp]]
     IN IF buy.err.msg # Nil
          THEN Answers(None, buy.err.msg)
          ELSE BeginValidation(c, tx)

\* The validation phases returned.
SimulateAnswers ==
  /\ pc = "answer"
  /\ IF rpc.cancelled THEN Answers(None, "validation aborted")
     ELSE IF ret.err.msg # Nil THEN Answers(None, ret.err.msg)
     ELSE Answers(Some(vpr), Nil)

WatcherStep(next) ==
  /\ caller = "doCallRip7560Validation"
  /\ rpc' = next
  /\ UNCHANGED <<inputs, pc, i, statedb, gp, usedGas, beforeValidationSnapshot,
                 beforeExecSnapshot, epc, st, vpr, loc, validatedTransactions, receipts,
                 validationFailureInfos, allLogs, ret, hist, call, est>>

\* The timeout passes, or the caller gives the request up.
ContextFires ==
  /\ ~rpc.ctxDone /\ pc # "done"
  /\ WatcherStep([rpc EXCEPT !.ctxDone = TRUE])

\* The watcher goroutine: <-ctx.Done(), then evm.Cancel().
WatcherCancels ==
  /\ rpc.ctxDone /\ ~rpc.cancelled
  /\ WatcherStep([rpc EXCEPT !.cancelled = TRUE])

SimulateNext ==
  \/ SimulateCall
  \/ OnEnter
  \/ NonceManagerFrameReturns
  \/ DeployerFrameReturns
  \/ AccountFrameReturns
  \/ PaymasterFrameReturns
  \/ SimulateAnswers
  \/ ContextFires
  \/ WatcherCancels

Simulate == SimulateInit /\ [][SimulateNext]_vars

(* ---------------------------- gas estimation --------------------------- *)
\* EstimateRip7560Validation and EstimateRip7560Execution, from the first
\* probe on, with ErrorRatio = 0. A probe runs the phase under a gas limit
\* and reports an error, a failure, or a success; the first one reports
\* the gas used and refunded as well. All the arithmetic is uint64.
CallStipend == 2
HighestLimits == {1, 2, 3, 4, 9, GasCap, MaxUint64}

EstimateInit ==
  /\ transactions = <<TxPlain>>
  /\ index = 0
  /\ skipInvalid = FALSE
  /\ header = [Time |-> BlockTime, BaseFee |-> Some(1)]
  /\ chainConfig = [IsLondon |-> TRUE, IsRIP7712 |-> TRUE]
  /\ cfg = [NoBaseFee |-> TRUE]
  /\ caller = "gasestimator"
  /\ pc = "estimate"
  /\ i = 0
  /\ statedb = InitialStateDB
  /\ gp = 0
  /\ usedGas = 0
  /\ beforeValidationSnapshot = None
  /\ beforeExecSnapshot = None
  /\ epc = NewEntryPointCall
  /\ st = NoStateTransition
  /\ vpr = NoValidationPhaseResult
  /\ loc = NoLocals
  /\ validatedTransactions = <<>>
  /\ receipts = <<>>
  /\ validationFailureInfos = <<>>
  /\ allLogs = <<>>
  /\ ret = NotReturned
  /\ hist = NoHistory
  /\ call = NoCall
  /\ rpc = NoRpc
  /\ \E hi \in HighestLimits : est = [NoEstimate EXCEPT !.stage = "first", !.hi = hi]

EstimateStep(next) ==
  /\ pc = "estimate"
  /\ est' = [next EXCEPT !.probes = IF next.stage = "done" /\ next.err = Nil /\ est.stage = "search"
                                      THEN @ ELSE 1 - @]
  /\ UNCHANGED <<inputs, pc, i, statedb, gp, usedGas, beforeValidationSnapshot,
                 beforeExecSnapshot, epc, st, vpr, loc, validatedTransactions, receipts,
                 validationFailureInfos, allLogs, ret, hist, call, rpc>>

\* The probe at the highest limit, and the bounds taken from it.
EstimateFirstProbe ==
  /\ est.stage = "first"
  /\ \/ EstimateStep([est EXCEPT !.stage = "done", !.err = "execution error"])
     \/ EstimateStep([est EXCEPT !.stage = "done", !.err = "gas required exceeds allowance"])
     \/ \E used \in 0..est.hi, refunded \in {0, 1} :
          LET optimisticGasLimit == U64(U64(used + refunded + CallStipend) * 64) \div 63
          IN EstimateStep([est EXCEPT !.lo = U64(used - 1),
                                      !.optimisticGasLimit = optimisticGasLimit,
                                      !.stage = IF optimisticGasLimit < est.hi
                                                  THEN "optimistic" ELSE "search"])

\* The probe at the optimistic limit.
EstimateOptimisticProbe ==
  /\ est.stage = "optimistic"
  /\ \/ EstimateStep([est EXCEPT !.stage = "done", !.err = "execution error"])
     \/ EstimateStep([est EXCEPT !.stage = "search", !.lo = est.optimisticGasLimit])
     \/ EstimateStep([est EXCEPT !.stage = "search", !.hi = est.optimisticGasLimit])

\* One turn of the loop 'for lo+1 < hi': the test, and the probe at mid.
EstimateSearchProbe ==
  /\ est.stage = "search"
  /\ IF ~(U64(est.lo + 1) < est.hi)
       THEN EstimateStep([est EXCEPT !.stage = "done"])
       ELSE LET half == U64(est.hi + est.lo) \div 2
                mid == IF half > U64(est.lo * 2) THEN U64(est.lo * 2) ELSE half
            IN \/ EstimateStep([est EXCEPT !.stage = "done", !.err = "execution error"])
               \/ EstimateStep([est EXCEPT !.lo = mid])
               \/ EstimateStep([est EXCEPT !.hi = mid])

EstimateNext ==
  \/ EstimateFirstProbe
  \/ EstimateOptimisticProbe
  \/ EstimateSearchProbe

\* The estimator is one sequential loop: it takes its next step.
Estimate == EstimateInit /\ [][EstimateNext]_vars /\ WF_vars(EstimateNext)

(* ----------------------- the helpers on their own ---------------------- *)
\* The helpers below are called with arguments of the whole range of their
\* types, which the batches above do not reach. The pipeline stands still.
HelperInit ==
  /\ transactions = <<TxPlain>>
  /\ index = 0
  /\ skipInvalid = FALSE
  /\ header = [Time |-> BlockTime, BaseFee |-> Some(1)]
  /\ chainConfig = [IsLondon |-> TRUE, IsRIP7712 |-> TRUE]
  /\ cfg = [NoBaseFee |-> FALSE]
  /\ caller = "handleRip7560Transactions"
  /\ pc = "helper"
  /\ i = 0
  /\ statedb = InitialStateDB
  /\ gp = 100
  /\ usedGas = 0
  /\ beforeValidationSnapshot = None
  /\ beforeExecSnapshot = None
  /\ epc = NewEntryPointCall
  /\ st = NoStateTransition
  /\ vpr = NoValidationPhaseResult
  /\ loc = NoLocals
  /\ validatedTransactions = <<>>
  /\ receipts = <<>>
  /\ validationFailureInfos = <<>>
  /\ allLogs = <<>>
  /\ ret = NotReturned
  /\ hist = NoHistory
  /\ call = NoCall
  /\ rpc = NoRpc
  /\ est = NoEstimate

Returns(fn, args, result) ==
  /\ pc = "helper" /\ call = NoCall
  /\ call' = [fn |-> fn, args |-> args, result |-> result]
  /\ UNCHANGED <<inputs, pc, i, statedb, gp, usedGas, beforeValidationSnapshot,
                 beforeExecSnapshot, epc, st, vpr, loc, validatedTransactions, receipts,
                 validationFailureInfos, allLogs, ret, hist, rpc, est>>

\* Block times, and the uint256 a callback can return.
Times == {0, BlockTime, MaxUint64}
WindowEnds == {0, 1, BlockTime - 1, BlockTime, BlockTime + 1, W64, W64 + BlockTime, W256 - 1}

CallTimeRange ==
  \E time \in Times, validAfter \in WindowEnds, validUntil \in WindowEnds :
    Returns("validateAcceptedTimeRange", <<time, validAfter, validUntil>>,
            validateAcceptedTimeRange(time, validAfter, validUntil))

\* Values of a 64-bit gas field, around the cap of SumGas and at the ends.
GasFields == {0, 1, GasCap - 1, GasCap, GasCap + 1, MaxUint64}

CallTotalGasLimit ==
  \E gas \in GasFields, validationGasLimit \in GasFields,
     paymasterValidationGasLimit \in GasFields, postOpGas \in GasFields :
    Returns("TotalGasLimit",
            <<gas, validationGasLimit, paymasterValidationGasLimit, postOpGas>>,
            TotalGasLimit([BaseTx EXCEPT !.Gas = gas,
                                         !.ValidationGasLimit = validationGasLimit,
                                         !.PaymasterValidationGasLimit = paymasterValidationGasLimit,
                                         !.PostOpGas = postOpGas]))

\* Transactions for the static checks: every combination of the fields the
\* checks read, with data of a few bytes.
StaticCheckTxs ==
  { [BaseTx EXCEPT !.Sender = sender, !.Deployer = deployer, !.DeployerData = deployerData,
                   !.Paymaster = paymaster, !.PaymasterData = paymasterData,
                   !.PaymasterValidationGasLimit = paymasterGas,
                   !.ValidationGasLimit = validationGas] :
      sender \in {"S", "N"}, deployer \in {Nil, "D", "C"},
      deployerData \in {NoBytes, Bytes(1, 0)},
      paymaster \in {Nil, "P", "C", ZeroAddress}, paymasterData \in {NoBytes, Bytes(0, 1)},
      paymasterGas \in {0, 10},
      validationGas \in {0, Rip7560TxGas + 3, Rip7560TxGas + 4, Rip7560TxGas + 19,
                         Rip7560TxGas + 20, Rip7560TxGas + 23, Rip7560TxGas + 24, GasCap} }

CallStaticValidation ==
  \E aatx \in StaticCheckTxs :
    Returns("performStaticValidation", <<aatx>>, performStaticValidation(aatx, statedb))

\* internal/ethapi/rip7560api.go. The hash of a bundle is the hash of its
\* transactions' hashes, in their order; the zero hash is None.
CalculateBundleHash(txs) == Some([k \in 1..Len(txs) |-> Hash(txs[k])])

SubmitRip7560BundleWithoutAcceptPush(rip7560AcceptPush, bundle, poolErr) ==
  [err |-> poolErr, pool |-> Some(bundle)]

\* eth/api_backend_rip7560.go. pool: the bundle the tx pool was called
\* with; poolErr: what the pool answered.
SubmitRip7560Bundle(rip7560AcceptPush, bundle, poolErr) ==
  IF ~rip7560AcceptPush
    THEN [err |-> "illegal call to eth_sendRip7560TransactionsBundle", pool |-> None]
    ELSE [err |-> poolErr, pool |-> Some(bundle)]

\* txs: the transactions the arguments convert to, in the arguments' order.
SendRip7560TransactionsBundle(txs, creationBlock, bundlerId, rip7560AcceptPush, poolErr) ==
  IF Len(txs) = 0
    THEN [hash |-> None, err |-> "submitted bundle has zero length", pool |-> None]
    ELSE LET bundleHash == CalculateBundleHash(txs)
             bundle == [BundlerId |-> bundlerId, ValidForBlock |-> creationBlock,
                        Transactions |-> txs, BundleHash |-> bundleHash]
             sub == SubmitRip7560Bundle(rip7560AcceptPush, bundle, poolErr)
         IN IF sub.err # Nil
              THEN [hash |-> None, err |-> sub.err, pool |-> sub.pool]
              ELSE [hash |-> bundleHash, err |-> Nil, pool |-> sub.pool]

CallSendBundle ==
  \E txs \in SeqsUpTo({TxPlain, TxPaymaster}, MaxBatch), creationBlock \in {1, 2},
     rip7560AcceptPush \in BOOLEAN, poolErr \in {Nil, "bundle rejected"} :
    Returns("SendRip7560TransactionsBundle",
            <<txs, creationBlock, rip7560AcceptPush, poolErr>>,
            SendRip7560TransactionsBundle(txs, creationBlock, "bundler",
                                          rip7560AcceptPush, poolErr))

HelperNext ==
  \/ CallTimeRange
  \/ CallTotalGasLimit
  \/ CallStaticValidation
  \/ CallSendBundle

Helpers == HelperInit /\ [][HelperNext]_vars

(* ------------------------------ properties ----------------------------- *)
\* The transaction the driver handled last, its index in the block, and
\* the receipt it was given.
HandledTx == transactions[index + hist.iStart + 1]
HandledIndex == index + hist.iStart
LastReceipt == receipts[Len(receipts)]
Executed == hist.outcome = "executed"
Skipped == hist.outcome = "skipped"
Written(name) == <<HandledIndex, name>> \in statedb.storage
SameAccounts(a, b) ==
  /\ a.balance = b.balance /\ a.nonce = b.nonce
  /\ a.code = b.code /\ a.storage = b.storage
RunEnded == index + i >= Len(transactions) \/ CurrentTx.Type # Rip7560Type
LastTransactionEvent ==
  LET events == SelectSeq(LastReceipt.Logs, LAMBDA l : l.Event = "RIP7560TransactionEvent")
  IN events[Len(events)]

C3_PostOpFailureStatus ==
  (Executed /\ loc.postOpRan /\ loc.postOpFailed) =>
    LastTransactionEvent.executionStatus =
      IF loc.executionFailed THEN ExecutionStatusExecutionAndPostOpFailure
      ELSE ExecutionStatusPostOpFailure

\* C4: the state goes back to the snapshot taken before the execution
\* frame exactly when the post-op ran and failed; a failed execution frame
\* alone reverts nothing, and what the validation phase changed (the
\* nonce, the deployed code, the pre-charge, what its frames wrote) stays.
C4_PostOpFailureRevertsExecutionOnly ==
  Executed =>
    LET tx == HandledTx
        payer == GasPayer(tx)
        reverted == loc.postOpRan /\ loc.postOpFailed
    IN /\ (\E k \in 1..Len(hist.reverts) : hist.reverts[k] = "execution") <=> reverted
       /\ reverted => ~Written("execution") /\ ~Written("postop")
       /\ (~reverted /\ ~loc.executionFailed) => Written("execution")
       /\ (loc.postOpRan /\ ~loc.postOpFailed) => Written("postop")
       /\ Written("account")
       /\ HasPaymasterMessage(tx) => Written("paymaster")
       /\ tx.Deployer # Nil => Written("deployer") /\ statedb.code[tx.Sender]
       /\ (tx.Deployer = Nil /\ ~IsRip7712Nonce(tx)) =>
            statedb.nonce[tx.Sender] = hist.txStart.nonce[tx.Sender] + 1
       /\ statedb.balance[payer] =
            U256(hist.txStart.balance[payer] - vpr.PreCharge + loc.refundPaid)

C4_Witness ==
  /\ Executed /\ loc.postOpRan /\ loc.postOpFailed /\ ~loc.executionFailed
  /\ Written("account") /\ Written("paymaster")
  /\ vpr.PreCharge > 0

\* C5: the gas an executed transaction used never exceeds its total gas
\* limit, so the pipeline never aborts on that check.
C5_GasUsedWithinTotalLimit ==
  /\ pc # "panic"
  /\ hist.outcome \in {"executed", "panic"} => loc.gasUsed <= loc.totalGasLimit

C7_GasPoolReducedByGasUsed ==
  Executed => gp = hist.gpStart - LastReceipt.GasUsed

C7_Witness ==
  /\ Executed
  /\ LastReceipt.GasUsed > 0
  /\ LastReceipt.GasUsed < TotalGasLimit(HandledTx).val
  /\ gp < hist.gpStart

\* C8: the gas used in the receipt of an executed transaction is the sum
\* of the intrinsic cost, the gas used by the nonce manager, deployer,
\* account and paymaster frames, the execution gas and its penalty, the
\* post-op gas and its penalty when the post-op ran, less the refund.
C8_ReceiptGasUsed ==
  Executed =>
    LastReceipt.GasUsed =
      U64(vpr.PreTransactionGasCost + vpr.NonceManagerUsedGas + vpr.DeploymentUsedGas
          + vpr.ValidationUsedGas + vpr.PmValidationUsedGas
          + loc.executionUsedGas + loc.executionGasPenalty
          + (IF loc.postOpRan THEN loc.postOpUsedGas + loc.postOpGasPenalty ELSE 0)
          - loc.gasRefund)

\* C9: a transaction passes validation only if its account frame made
\* exactly one call to ENTRY_POINT, from the sender, and, with a paymaster,
\* its paymaster frame made exactly one, from the paymaster.
C9_OneCallbackPerFrame ==
  hist.validated =>
    /\ hist.accountCalls = 1 /\ hist.accountFrom = HandledTx.Sender
    /\ HasPaymasterMessage(HandledTx) =>
         hist.paymasterCalls = 1 /\ hist.paymasterFrom = HandledTx.Paymaster

\* C10: the buffer of captured calls is empty whenever a validation frame
\* that has not yet called ENTRY_POINT is running.
C10_BufferClearedBetweenFrames ==
  (pc \in ValidationFrames /\ hist.epCalls = 0) => epc = NewEntryPointCall

\* C11: when the account frame ends with a captured sigFailAccount call,
\* or the paymaster frame with a captured sigFailPaymaster call, validation
\* fails: the transaction is skipped or ends the driver, and its execution
\* never starts.
C11_SigFailIsRejected ==
  [][ \A f \in {"account", "paymaster"} :
        ( /\ pc = f /\ pc' # f
          /\ epc.Input # None
          /\ epc.Input[1].method = (IF f = "account" THEN "sigFailAccount"
                                    ELSE "sigFailPaymaster") )
        => /\ hist'.outcome \in {"skipped", "fatal"}
           /\ ~hist'.validated
           /\ pc' \in {"loop", "done"}
           /\ Len(validatedTransactions') = Len(validatedTransactions)
           /\ Len(receipts') = Len(receipts) ]_vars

C11_Witness ==
  /\ hist.outcome \in {"skipped", "fatal"}
  /\ hist.frames # <<>> /\ hist.frames[Len(hist.frames)] = "paymaster"
  /\ hist.epCalls = 1
  /\ epc = [Input |-> Some(CallData("sigFailPaymaster", 0, 0, 0)),
            From |-> HandledTx.Paymaster, err |-> Nil]

\* C12: the time check of a window the accept callback returned passes
\* exactly when validAfter = validUntil = 0 or validAfter <= block.time <=
\* validUntil.
C12_TimeCheckMatchesWindow ==
  call.fn = "validateAcceptedTimeRange" =>
    LET time == call.args[1]
        validAfter == call.args[2]
        validUntil == call.args[3]
    IN (call.result = Nil) <=>
         \/ validAfter = 0 /\ validUntil = 0
         \/ validAfter <= time /\ time <= validUntil

\* The error a failed validation of the handled transaction ended with.
FailureMessage == hist.vpe.msg
NonceErrors == {"nonce too high", "nonce too low", "nonce has max value"}

\* C13: a transaction with nonce_key = 0 gets past the nonce step only
\* with tx.nonce equal to the sender's nonce in the state (and that nonce
\* not the largest uint64), and fails there with the matching error
\* otherwise; once validated, the sender's nonce is one more than before
\* without a deployer and as before with a deployer. (Frames leave nonces
\* alone here, so every change is the pipeline's.)
C13_StaticNonceCheck ==
  (hist.outcome # "none" \/ hist.frames # <<>>) /\ HandledTx.NonceKey = 0 =>
    LET tx == HandledTx
        before == hist.txStart.nonce[tx.Sender]
        failed == hist.outcome \in {"skipped", "fatal"}
    IN /\ hist.frames # <<>> => before = tx.Nonce /\ before # MaxUint64
       /\ (failed /\ FailureMessage \in NonceErrors) =>
            /\ hist.frames = <<>>
            /\ FailureMessage = (IF before < tx.Nonce THEN "nonce too high"
                                 ELSE IF before > tx.Nonce THEN "nonce too low"
                                 ELSE "nonce has max value")
            /\ before = tx.Nonce => before = MaxUint64
       /\ (failed /\ hist.frames = <<>> /\ (before # tx.Nonce \/ before = MaxUint64)) =>
            FailureMessage \in NonceErrors
                               \cup {"insufficient funds", "gas limit reached",
                                     "invalid gas values"}
                               \cup {performStaticValidation(tx, hist.txStart)}
       /\ hist.validated =>
            statedb.nonce[tx.Sender] = (IF tx.Deployer = Nil THEN before + 1 ELSE before)

C13_Witness ==
  /\ Executed /\ HandledTx = TxNextNonce
  /\ hist.txStart.nonce["S"] = 1
  /\ statedb.nonce["S"] = 2

\* The first frame of the handled transaction is running: gas was bought
\* and no frame has returned yet.
GasJustBought == Len(hist.frames) = 1 /\ pc = hist.frames[1]

\* C14: when gas was bought, the gas payer (the paymaster when set and not
\* the zero address, else the sender) had at least total gas limit times
\* effective gas price and the pool at least the total gas limit; exactly
\* these amounts were taken from the payer and from the pool, and no other
\* balance changed.
C14_BuyGasChargesThePayer ==
  GasJustBought =>
    LET tx == HandledTx
        payer == IF tx.Paymaster # Nil /\ tx.Paymaster # ZeroAddress
                   THEN tx.Paymaster ELSE tx.Sender
        total == Rip7560TxGas + tx.Gas + tx.ValidationGasLimit
                   + tx.PaymasterValidationGasLimit + tx.PostOpGas
        cost == total * vpr.EffectiveGasPrice
    IN /\ hist.txStart.balance[payer] >= cost
       /\ hist.gpStart >= total
       /\ statedb.balance[payer] = hist.txStart.balance[payer] - cost
       /\ gp = hist.gpStart - total
       /\ \A a \in Accounts \ {payer} : statedb.balance[a] = hist.txStart.balance[a]


\* C15: TotalGasLimit never returns a wrapped value: whatever the four gas
\* fields are, each at the cap of SumGas included, it returns an error or the
\* exact sum of the intrinsic cost and the four fields.
C15_TotalGasLimitIsExact ==
  call.fn = "TotalGasLimit" =>
    \/ call.result.err # Nil
    \/ call.result.val
         = Rip7560TxGas + call.args[1] + call.args[2] + call.args[3] + call.args[4]


\* C16: a transaction whose gas_fee_cap is lower than the base fee of the
\* block fails validation before any frame (nonce manager, deployer,
\* account, paymaster) is invoked.
FeeCapBelowBaseFee ==
  /\ hist.outcome # "none" \/ hist.frames # <<>>
  /\ header.BaseFee # None
  /\ HandledTx.GasFeeCap < header.BaseFee[1]

C16_LowFeeCapFailsBeforeFrames ==
  FeeCapBelowBaseFee =>
    /\ hist.frames = <<>>
    /\ ~hist.validated
    /\ hist.outcome \in {"none", "skipped", "fatal"}


\* C17: the penalty of the execution frame is exactly 10% (rounded down) of
\* tx.gas - execution_used, and the penalty of a post-op frame that ran is
\* exactly 10% (rounded down) of post_op_gas - post_op_used, for every limit
\* up to the cap: the 64-bit computation never wraps around.
C17_PenaltyIsTenPercent ==
  Executed =>
    /\ loc.executionUsedGas <= HandledTx.Gas
    /\ loc.executionGasPenalty
         = ((HandledTx.Gas - loc.executionUsedGas) * AA_GAS_PENALTY_PCT) \div 100
    /\ loc.postOpRan =>
         /\ loc.postOpUsedGas <= HandledTx.PostOpGas
         /\ loc.postOpGasPenalty
              = ((HandledTx.PostOpGas - loc.postOpUsedGas) * AA_GAS_PENALTY_PCT) \div 100


\* C18: the refund subtracted from the gas used of an executed transaction
\* never exceeds one fifth (rounded down) of the gas used before the
\* subtraction, whatever the refund counters of the phases are.
GasUsedBeforeRefund == U64(LastReceipt.GasUsed + loc.gasRefund)

C18_RefundIsCapped ==
  Executed => loc.gasRefund <= GasUsedBeforeRefund \div RefundQuotientEIP3529

\* The refund counters ask for more than the cap and the cap is paid.
C18_Witness ==
  /\ Executed
  /\ loc.gasRefund > 0
  /\ vpr.ValidationRefund > GasUsedBeforeRefund \div RefundQuotientEIP3529
  /\ loc.gasRefund + loc.gasRefund < vpr.ValidationRefund


\* C19: the logs injected for one executed transaction are, in this order,
\* one RIP7560TransactionEvent, one RIP7560AccountDeployed exactly when a
\* deployer was set, one RIP7560TransactionRevertReason exactly when the
\* execution frame failed, one RIP7560TransactionPostOpRevertReason exactly
\* when the post-op frame failed; each has the address ENTRY_POINT, and all
\* are in the state and in the receipt also after a failed post-op
\* reverted the execution snapshot.
InjectedLogs == SubSeq(statedb.logs, Len(hist.txStart.logs) + 1, Len(statedb.logs))

ExpectedEvents ==
  <<"RIP7560TransactionEvent">>
  \o (IF HandledTx.Deployer # Nil THEN <<"RIP7560AccountDeployed">> ELSE <<>>)
  \o (IF loc.executionFailed THEN <<"RIP7560TransactionRevertReason">> ELSE <<>>)
  \o (IF loc.postOpRan /\ loc.postOpFailed
        THEN <<"RIP7560TransactionPostOpRevertReason">> ELSE <<>>)

C19_InjectedLogsInOrder ==
  Executed =>
    /\ [k \in 1..Len(InjectedLogs) |-> InjectedLogs[k].Event] = ExpectedEvents
    /\ \A k \in 1..Len(InjectedLogs) : InjectedLogs[k].Address = AA_ENTRY_POINT
    /\ Len(LastReceipt.Logs) >= Len(InjectedLogs)
    /\ SubSeq(LastReceipt.Logs, Len(LastReceipt.Logs) - Len(InjectedLogs) + 1,
              Len(LastReceipt.Logs)) = InjectedLogs

\* Both frames failed and the execution snapshot was reverted.
C19_Witness ==
  /\ Executed
  /\ loc.executionFailed /\ loc.postOpRan /\ loc.postOpFailed
  /\ hist.reverts # <<>> /\ hist.reverts[Len(hist.reverts)] = "execution"
  /\ Len(InjectedLogs) = 3


\* C20: the driver processes only the maximal run of consecutive type-0x04
\* transactions that starts at the given index: it stops at the first
\* transaction of another type, and no transaction behind that one is
\* validated or executed by this call, even one of type 0x04.
RECURSIVE RunFrom(_)
RunFrom(k) ==
  IF k > Len(transactions) \/ transactions[k].Type # Rip7560Type THEN 0
  ELSE 1 + RunFrom(k + 1)
MaximalRun == RunFrom(index + 1)

C20_OnlyTheMaximalRun ==
  /\ i <= MaximalRun
  /\ (hist.frames # <<>> \/ hist.outcome # "none") => hist.iStart < MaximalRun
  /\ Len(validatedTransactions) <= MaximalRun
  /\ Len(receipts) <= MaximalRun
  /\ \A k \in 1..Len(validatedTransactions) :
       \E j \in 1..MaximalRun : validatedTransactions[k] = transactions[index + j]
  /\ \A k \in 1..Len(receipts) :
       \E j \in 1..MaximalRun : receipts[k].TxHash = Hash(transactions[index + j])
  /\ (ret.returned /\ ret.err = NoError) => i = MaximalRun

\* The run of one transaction was executed, the driver returned at the
\* transaction of another type, and the transaction behind it is untouched.
C20_Witness ==
  /\ transactions = MixedBatch /\ index = 0
  /\ ret.returned /\ ret.err = NoError
  /\ i = 1
  /\ validatedTransactions = <<TxPlain>>
  /\ Len(receipts) = 1
  /\ statedb.balance["P"] = InitialStateDB.balance["P"]


\* C21: within one transaction the frames are invoked in the order nonce
\* manager (only with a two-dimensional nonce), deployer (only if set),
\* account validation, paymaster validation (only with an active
\* paymaster), account execution, paymaster post-op; no frame is invoked
\* after a validation step of the transaction failed, and the execution
\* frame is invoked only for a transaction whose validation succeeded.
FrameRank(f) ==
  CASE f = "nonce" -> 1 [] f = "deployer" -> 2 [] f = "account" -> 3
    [] f = "paymaster" -> 4 [] f = "execution" -> 5 [] f = "postop" -> 6

Invoked(f) == \E k \in 1..Len(hist.frames) : hist.frames[k] = f

ActivePaymaster == HandledTx.Paymaster # Nil /\ HandledTx.Paymaster # ZeroAddress

C21_FramesInOrder ==
  hist.frames # <<>> =>
    /\ \A k \in 1..(Len(hist.frames) - 1) :
         FrameRank(hist.frames[k]) < FrameRank(hist.frames[k + 1])
    /\ Invoked("nonce") => HandledTx.NonceKey # 0
    /\ Invoked("deployer") => HandledTx.Deployer # Nil
    /\ Invoked("paymaster") => ActivePaymaster
    /\ Invoked("account") =>
         /\ HandledTx.NonceKey # 0 => Invoked("nonce")
         /\ HandledTx.Deployer # Nil => Invoked("deployer")
    /\ Invoked("paymaster") => Invoked("account")
    /\ Invoked("execution") =>
         /\ hist.validated
         /\ Invoked("account")
         /\ ActivePaymaster => Invoked("paymaster")
    /\ Invoked("postop") => Invoked("execution")
    /\ hist.outcome \in {"skipped", "fatal"} =>
         /\ pc \in {"loop", "done"}
         /\ ~hist.validated
         /\ ~Invoked("execution")

\* A transaction with a paymaster went through its four frames.
C21_Witness ==
  /\ Executed
  /\ hist.frames = <<"account", "paymaster", "execution", "postop">>


\* C22: when a static check fails (validation_gas_limit = intrinsic - 1
\* included) validation returns its error before gas is bought and before
\* any frame is invoked: the balance of the gas payer and the gas pool of
\* the block are as the transaction found them; a validation_gas_limit
\* equal to the intrinsic cost is not rejected by the static check.
Handled == hist.outcome # "none" \/ hist.frames # <<>>
StaticError == performStaticValidation(HandledTx, hist.txStart)
IntrinsicGas == PreTransactionGasCost(HandledTx).val
InsufficientValidationGas == "insufficient ValidationGasLimit to cover PreTransactionGasCost"

DataGas(data) == data.nz * TxDataNonZeroGasEIP2028 + data.z * TxDataZeroGas

IntrinsicOf(tx) ==
  Rip7560TxGas + DataGas(tx.AuthorizationData) + DataGas(tx.DeployerData)
  + DataGas(tx.ExecutionData) + DataGas(tx.PaymasterData)
  + tx.AccessList.addresses * TxAccessListAddressGas
  + tx.AccessList.storageKeys * TxAccessListStorageKeyGas

HasCode(a) == statedb.code[a]

StaticRejection(tx) ==
  \/ tx.Deployer = Nil /\ Len8(tx.DeployerData) > 0
  \/ tx.Paymaster = Nil /\ (Len8(tx.PaymasterData) > 0 \/ tx.PaymasterValidationGasLimit > 0)
  \/ tx.Paymaster # Nil /\ (~HasCode(tx.Paymaster) \/ tx.PaymasterValidationGasLimit = 0)
  \/ tx.Deployer # Nil /\ (HasCode(tx.Sender) \/ ~HasCode(tx.Deployer))
  \/ IntrinsicOf(tx) > tx.ValidationGasLimit
  \/ ~HasCode(tx.Sender) /\ tx.Deployer = Nil

C23_StaticRejectionConditions ==
  call.fn = "performStaticValidation" =>
    ((call.result # Nil) <=> StaticRejection(call.args[1]))

\* The only ground is a validation gas limit one below the intrinsic cost.
C23_Witness ==
  /\ call.fn = "performStaticValidation"
  /\ call.result # Nil
  /\ call.args[1].Deployer = "D" /\ call.args[1].Sender = "N"
  /\ call.args[1].Paymaster = "P" /\ call.args[1].PaymasterValidationGasLimit > 0
  /\ call.args[1].ValidationGasLimit + 1 = IntrinsicOf(call.args[1])


\* C24: with a deployer, validation succeeds only if the sender had no code
\* before the deployer frame and has code after it; the deployer frame is
\* called from SENDER_CREATOR with the budget validation_gas_limit -
\* intrinsic, the account frame then gets validation_gas_limit - intrinsic -
\* deployer_used, and intrinsic + deployer_used + account_validation_used
\* never exceeds validation_gas_limit.
CallOf(f) == hist.calls[CHOOSE k \in 1..Len(hist.frames) : hist.frames[k] = f]

C24_DeployerFrame ==
  (Handled /\ HandledTx.Deployer # Nil) =>
    LET tx == HandledTx
        intrinsic == IntrinsicOf(tx)
    IN
    /\ Invoked("deployer") =>
         /\ ~hist.txStart.code[tx.Sender]
         /\ CallOf("deployer") = [from |-> AA_SENDER_CREATOR, to |-> tx.Deployer,
                                  gas |-> tx.ValidationGasLimit - intrinsic]
    /\ Invoked("account") =>
         /\ Invoked("deployer")
         /\ ~Skipped => statedb.code[tx.Sender]
         /\ CallOf("account").gas
              = tx.ValidationGasLimit - intrinsic - vpr.DeploymentUsedGas
         /\ CallOf("account").gas >= 0
    /\ hist.validated =>
         /\ ~hist.txStart.code[tx.Sender] /\ statedb.code[tx.Sender]
         /\ intrinsic + vpr.DeploymentUsedGas + vpr.ValidationUsedGas
              <= tx.ValidationGasLimit

\* An account was deployed and validated, the deployer having used gas.
C24_Witness ==
  /\ hist.validated /\ HandledTx.Deployer # Nil
  /\ vpr.DeploymentUsedGas > 0 /\ vpr.ValidationUsedGas > 0
  /\ statedb.code[HandledTx.Sender] /\ ~hist.txStart.code[HandledTx.Sender]


\* C25: a paymaster callback with a context of exactly 65536 bytes is
\* accepted, one of 65537 bytes makes validation fail, and no validation
\* result carries a paymaster context longer than 65536 bytes.
ContextTooLarge == "paymaster return data: context too large"

\* The paymaster frame of the handled transaction is over and a callback
\* was captured in it.
PaymasterAnswered ==
  /\ Invoked("paymaster") /\ pc # "paymaster"
  /\ epc.Input # None

C25_ContextSizeLimit ==
  /\ vpr.PaymasterContext <= PaymasterMaxContextSize
  /\ PaymasterAnswered =>
       LET size == epc.Input[1].Context IN
       /\ size > PaymasterMaxContextSize =>
            ~hist.validated /\ hist.outcome \in {"skipped", "fatal"}
       /\ (size <= PaymasterMaxContextSize /\ hist.outcome \in {"skipped", "fatal"}) =>
            FailureMessage # ContextTooLarge
       /\ hist.validated => vpr.PaymasterContext = size

\* A context of exactly the largest size was accepted.
C25_Witness ==
  /\ PaymasterAnswered /\ hist.validated
  /\ epc.Input[1].Context = PaymasterMaxContextSize
  /\ vpr.PaymasterContext = PaymasterMaxContextSize


\* C26: when the paymaster callback returns a non-empty context and the
\* post_op_gas of the transaction is 0, validation fails; so a post-op
\* frame never runs with a gas budget of zero.
ContextWithoutPostOpGas ==
  "paymaster returned a context but the paymasterPostOpGasLimit is 0"

NonceDisabled == "RIP-7712 nonce is disabled"
EarlierErrors ==
  {StaticError, "insufficient funds", "gas limit reached", "invalid gas values"} \ {Nil}

C27_NonceKeyNeedsRip7712 ==
  (Handled /\ HandledTx.NonceKey # 0 /\ ~chainConfig.IsRIP7712) =>
    /\ hist.frames = <<>>
    /\ ~hist.validated
    /\ hist.outcome \in {"skipped", "fatal"}
    /\ FailureMessage \in {NonceDisabled} \cup EarlierErrors
    /\ (StaticError = Nil /\ gp < hist.gpStart) => FailureMessage = NonceDisabled

\* Gas was bought and the transaction was rejected for its nonce key.
C27_Witness ==
  /\ Handled /\ HandledTx.NonceKey # 0 /\ ~chainConfig.IsRIP7712
  /\ hist.outcome = "fatal" /\ FailureMessage = NonceDisabled
  /\ hist.frames = <<>> /\ gp < hist.gpStart


\* C28: the receipt of an executed transaction has the status failed if and
\* only if the execution frame failed or the post-op frame failed, that is,
\* if and only if the executionStatus of the emitted event is not 0; it has
\* the status success otherwise.
C28_ReceiptStatus ==
  Executed =>
    LET failed == loc.executionFailed \/ (loc.postOpRan /\ loc.postOpFailed) IN
    /\ LastReceipt.Status \in {ReceiptStatusFailed, ReceiptStatusSuccessful}
    /\ (LastReceipt.Status = ReceiptStatusFailed) <=> failed
    /\ failed <=> (LastTransactionEvent.executionStatus # ExecutionStatusSuccess)

\* The execution frame succeeded, the post-op frame failed.
C28_Witness ==
  /\ Executed
  /\ ~loc.executionFailed /\ loc.postOpRan /\ loc.postOpFailed
  /\ LastReceipt.Status = ReceiptStatusFailed
  /\ LastTransactionEvent.executionStatus # ExecutionStatusSuccess


\* C29: the receipt of a transaction carries the index of the transaction in
\* the block, the index + i the driver gave to SetTxContext, which is the
\* index its logs share; two transactions executed in one batch never get
\* the same transaction index in their receipts.
C29_ReceiptTransactionIndex ==
  /\ Executed =>
       /\ LastReceipt.TransactionIndex = HandledIndex
       /\ \A k \in 1..Len(InjectedLogs) :
            InjectedLogs[k].TxIndex = LastReceipt.TransactionIndex
  /\ \A j, k \in 1..Len(receipts) :
       j # k => receipts[j].TransactionIndex # receipts[k].TransactionIndex

\* C30: traced through debug_traceRip7560Validation, an account frame that
\* ends with a captured sigFailAccount call, or a paymaster frame with a
\* captured sigFailPaymaster call, has its callback decoded: the trace does
\* not end with the decoder's wrong-method error.
C30_TracingAcceptsSigFail ==
  [][ \A f \in {"account", "paymaster"} :
        ( /\ caller = "traceTx"
          /\ pc = f /\ pc' # f
          /\ epc.Input # None
          /\ epc.Input[1].method = (IF f = "account" THEN "sigFailAccount"
                                    ELSE "sigFailPaymaster") )
        => ret'.err.msg # "unable to decode: got wrong method" ]_vars

\* C31: in doCallRip7560Validation, once the watcher has cancelled the EVM
\* after the context fired, a validation frame that is running ends with an
\* error: validation fails there, and the request then answers "validation
\* aborted" with no result.
C31_CancelStopsTheRunningFrame ==
  [][ /\ ( /\ caller = "doCallRip7560Validation"
           /\ rpc.cancelled
           /\ pc \in ValidationFrames /\ pc' # pc )
        => pc' = "answer" /\ ret'.err.msg # Nil
      /\ (rpc.cancelled /\ pc = "answer" /\ pc' = "done")
        => rpc'.result = None /\ rpc'.err = "validation aborted" ]_vars

\* C32: SendRip7560TransactionsBundle calls the tx pool only with a
\* non-empty list and Rip7560AcceptPush set; otherwise it returns an error
\* and the zero hash without calling the pool; when it succeeds, it returns
\* the BundleHash of the envelope it handed over, and the envelope holds the
\* transactions in the submitted order.
C32_BundleIngress ==
  call.fn = "SendRip7560TransactionsBundle" =>
    LET txs == call.args[1]
        rip7560AcceptPush == call.args[3]
        r == call.result
    IN /\ r.pool # None => Len(txs) > 0 /\ rip7560AcceptPush
       /\ (Len(txs) = 0 \/ ~rip7560AcceptPush) =>
            r.err # Nil /\ r.hash = None /\ r.pool = None
       /\ r.err = Nil =>
            /\ r.pool # None /\ r.hash # None
            /\ r.hash = r.pool[1].BundleHash
            /\ r.pool[1].Transactions = txs

C32_Witness ==
  /\ call.fn = "SendRip7560TransactionsBundle"
  /\ call.args[1] = <<TxPaymaster, TxPlain>>
  /\ call.result.err = Nil
  /\ call.result.pool[1].Transactions = <<TxPaymaster, TxPlain>>

\* The name an error gives the frame, and the frame the failed validation
\* of the handled transaction ended in, if a failed frame ended it.
EntityName(f) == IF f = "nonce" THEN "NonceManager" ELSE f
ValidationEnded == hist.outcome \in {"skipped", "fatal"} /\ ~hist.validated
FrameReverted == hist.reverted # None /\ hist.reverted[1].frame \in ValidationFrames
LastDebugInfo == validationFailureInfos[Len(validationFailureInfos)]

\* C33: a validation that failed because a frame failed carries the name
\* of that frame, frame_reverted = true and the frame's return data, in the
\* error and in the debug record of a skipped transaction; every other
\* failed validation carries frame_reverted = false.
C33_FrameRevertIsNamed ==
  ValidationEnded =>
    LET vpe == hist.vpe
        f == hist.reverted[1]
    IN /\ FrameReverted =>
            /\ f.frame = hist.frames[Len(hist.frames)]
            /\ vpe.isVPE /\ vpe.frameReverted
            /\ vpe.revertEntityName = EntityName(f.frame)
            /\ vpe.reason = hexutilEncode(f.data)
            /\ skipInvalid =>
                 /\ LastDebugInfo.FrameReverted
                 /\ LastDebugInfo.RevertEntityName = EntityName(f.frame)
                 /\ LastDebugInfo.RevertData = hexutilEncode(f.data)
       /\ ~FrameReverted =>
            /\ ~vpe.frameReverted
            /\ skipInvalid => ~LastDebugInfo.FrameReverted

C33_Witness ==
  /\ ValidationEnded /\ skipInvalid
  /\ hist.frames = <<"nonce">> /\ FrameReverted
  /\ LastDebugInfo.RevertEntityName = "NonceManager"
  /\ LastDebugInfo.RevertData = "0x08c379a0"

ValidationPhaseGas ==
  vpr.PreTransactionGasCost + vpr.NonceManagerUsedGas + vpr.DeploymentUsedGas
    + vpr.ValidationUsedGas + vpr.PmValidationUsedGas
Smaller(a, b) == IF a < b THEN a ELSE b

C36_SkipRestoresGasPool ==
  (skipInvalid /\ Skipped) => gp = hist.gpStart

\* The transaction in hand was validated and executed earlier in the batch.
ExecutedBefore ==
  \E k \in 1..hist.validatedStart :
    /\ validatedTransactions[k] = HandledTx
    /\ k <= Len(receipts)

\* C37: a transaction with nonce_key = 0 that was validated and executed
\* earlier in the batch does not pass validation again: its later
\* occurrence invokes no frame and is rejected, with the nonce error when
\* it has no deployer and gets as far as the nonce check, with a static
\* error when it has a deployer.
C37_NoReplayWithinBatch ==
  (Handled /\ HandledTx.NonceKey = 0 /\ ExecutedBefore) =>
    /\ ~hist.validated
    /\ hist.frames = <<>>
    /\ hist.outcome \in {"skipped", "fatal"}
    /\ HandledTx.Deployer # Nil => FailureMessage = StaticError /\ StaticError # Nil
    /\ (HandledTx.Deployer = Nil /\ gp < hist.gpStart) => FailureMessage = "nonce too low"

C37_Witness ==
  /\ transactions = <<TxDeployer, TxDeployer>>
  /\ Len(receipts) = 1 /\ i = 2
  /\ Skipped /\ ExecutedBefore
  /\ FailureMessage = "sender is already deployed"

\* C38: the static checks answer a transaction whose paymaster is the zero
\* address as they answer the same transaction without a paymaster, the
\* transaction it is encoded as.
C38_ZeroPaymasterIsNoPaymaster ==
  (call.fn = "performStaticValidation" /\ call.args[1].Paymaster = ZeroAddress) =>
    call.result = performStaticValidation([call.args[1] EXCEPT !.Paymaster = Nil], statedb)

\* C39: the time check is made on the window the callback returned: two
\* 256-bit values, none of them reduced modulo 2^64, so that the check
\* answers as validateValidityTimeRange answers the values themselves.
C39_WindowIsNotTruncated ==
  call.fn = "validateAcceptedTimeRange" =>
    call.result = validateValidityTimeRange(call.args[1], call.args[2], call.args[3])

\* C40: with ErrorRatio = 0, whatever the first probe reported and
\* whatever the later probes answer, the search of the estimator ends.
C40_EstimateTerminates == <>(est.stage = "done")


====
